---- MODULE Spec2Model ----
(***************************************************************************)
(* Canonical document model, the Cursor converter (toCursor) and the       *)
(* agents.md parser (fromAgentsMd) of prompt-package-manager.              *)
(*                                                                         *)
(* Text representation.  A JavaScript string is modelled as a non-empty    *)
(* sequence of lines (the result of split('\n')); a line is a sequence of  *)
(* atoms.  An atom is either a character the code inspects ("#", " ",      *)
(* "-", a backtick, ":", a digit, an emoji) or an opaque run of characters that   *)
(* contains none of the inspected characters or keywords.  The empty       *)
(* string is one empty line; a single-line string is a line.  Values of    *)
(* enumerated type (section type, editorType, priority) are single atoms.  *)
(* A missing (undefined) property of a JavaScript object is a field that   *)
(* is not in the record's DOMAIN.                                          *)
(***************************************************************************)
EXTENDS Integers, Sequences, FiniteSets, TLC

VARIABLES
    cpc,        \* converter call (toCursor, toKiro): "call" | "returned" | "raised"
    pkg,        \* converter argument: the canonical package
    options,    \* converter argument: the conversion options
    result,     \* converter return value (ConversionResult)
    error,      \* message of the Error the converter call raised, empty if none
    rendered,   \* history: indexes of the input sections whose text was pushed, in push order
    ppc,              \* fromAgentsMd call: "start" | "scan" | "done" | "raised"
    content,          \* fromAgentsMd argument: the file text
    metadata,         \* fromAgentsMd argument: the package metadata
    frontmatter,      \* parseFrontmatter result
    body,             \* parseFrontmatter result; the lines parseMarkdown scans
    lineIndex,        \* parseMarkdown: position of the next line (the loop variable i, from 1)
    sections,         \* parseMarkdown: the sections emitted so far
    currentSection,   \* parseMarkdown: the open section or null
    inCodeBlock,      \* parseMarkdown: inside a fenced block
    currentCodeBlock, \* parseMarkdown: the pending example or null
    parsedPkg,        \* fromAgentsMd return value (CanonicalPackage)
    test_jobs,        \* table test_jobs: the rows in insertion order, a row's id is its index
    user_test_usage,  \* table user_test_usage: test_runs_count of each user for the current month
    wpc,              \* each worker's position in processNextJob
    snapshot,         \* get_next_test_job: ids of the rows the locking SELECT saw as queued
    job_id,           \* get_next_test_job: the variable job_id of each worker's call (0 is NULL)
    claims,           \* history: for each row, how often get_next_test_job returned its id
    reply,            \* the last response of POST /api/v1/test-jobs/run
    tpc,              \* prpm test: "start" | "hosted" | "local" | "poll" | "exited"
    argv,             \* prpm test: the flags given, the login state and the package's format
    testRun,          \* prpm test: the mode, framework and upload setting the tests run with
    jobRow,           \* the row of the submitted job in test_jobs with the outcome of its run
    attempts,         \* runHostedTest: the loop variable attempts
    exitCode          \* prpm test: -1 while running, 0 after a normal return, 1 after exit(1)

cvars == <<cpc, pkg, options, result, error, rendered>>
pvars == <<ppc, content, metadata, frontmatter, body, lineIndex, sections, currentSection,
           inCodeBlock, currentCodeBlock, parsedPkg>>
tvars == <<tpc, argv, testRun, jobRow, attempts, exitCode>>
qvars == <<test_jobs, user_test_usage, wpc, snapshot, job_id, claims, reply>>
vars == <<cpc, pkg, options, result, error, rendered, ppc, content, metadata, frontmatter, body,
          lineIndex, sections, currentSection, inCodeBlock, currentCodeBlock, parsedPkg,
          test_jobs, user_test_usage, wpc, snapshot, job_id, claims, reply,
          tpc, argv, testRun, jobRow, attempts, exitCode>>

(***************************************************************************)
(* Bounds                                                                  *)
(***************************************************************************)
MaxSections == 3
MaxLines == 4
MaxJobs == 2
NumWorkers == 2

(***************************************************************************)
(* Strings                                                                 *)
(***************************************************************************)
EmptyLine == <<>>
EmptyString == <<EmptyLine>>

Has(obj, field) == field \in DOMAIN obj

null == [isNull |-> TRUE]
IsNull(x) == Has(x, "isNull")

\* Array.prototype.join('\n') of an array of strings kept as their lines
Join(lines) == IF lines = <<>> THEN EmptyString ELSE lines

RECURSIVE DropLeadingBlank(_)
DropLeadingBlank(t) ==
    IF t = <<>> THEN <<>>
    ELSE IF Head(t) = EmptyLine THEN DropLeadingBlank(Tail(t)) ELSE t

RECURSIVE DropTrailingBlank(_)
DropTrailingBlank(t) ==
    IF t = <<>> THEN <<>>
    ELSE IF t[Len(t)] = EmptyLine THEN DropTrailingBlank(SubSeq(t, 1, Len(t) - 1)) ELSE t

\* String.prototype.trim() at the granularity of lines
TrimText(t) == Join(DropTrailingBlank(DropLeadingBlank(t)))

\* String.prototype.includes for the two literals of the lossy rule: the
\* warning templates keep these literals as atoms of their own
Includes(w, sub) == \E i \in 1..Len(w) : w[i] = sub

\* a backtick, and the three backticks that delimit a fenced block
\* and the emoji markers U+2705 and U+274C, one UTF-16 code unit each
Atom ==
    [Backtick |-> "<backtick>", Fence |-> "<fence>", CheckMark |-> "U+2705",
     CrossMark |-> "U+274C"]

Ordinal == <<"1", "2", "3", "4", "5">>

\* a value of type unknown: typeof and payload
Str(s) == [typeof |-> "string", v |-> s]
Num(n) == [typeof |-> "number", v |-> n]
Arr(a) == [typeof |-> "object", v |-> a]
IsString(x) == x.typeof = "string"
Truthy(x) == \/ x.typeof = "string" /\ x.v # <<>>
             \/ x.typeof = "number" /\ x.v # 0
             \/ x.typeof = "object"

(***************************************************************************)
(* toCursor: section renderers                                             *)
(***************************************************************************)
Returned(text, warnings) == [threw |-> FALSE, text |-> text, warnings |-> warnings]
Thrown(message, warnings) == [threw |-> TRUE, message |-> message, warnings |-> warnings]

DestructureError == "Cannot destructure property of undefined"
ForEachError == "Cannot read properties of undefined (reading 'forEach')"
SectionsError == "content.sections is not iterable"
ContentError == "Cannot read properties of undefined (reading 'sections')"

\* the title line of convertMetadata
MetadataTitleLines(data) ==
    IF Has(data, "icon") /\ Truthy(data.icon) /\ IsString(data.icon)
          /\ Has(data, "title") /\ IsString(data.title)
    THEN << <<"# ">> \o data.icon.v \o <<" ">> \o data.title.v >>
    ELSE IF Has(data, "title") /\ IsString(data.title)
    THEN << <<"# ">> \o data.title.v >>
    ELSE <<>>

MetadataDescriptionLines(data) ==
    IF Has(data, "description") /\ Truthy(data.description) /\ IsString(data.description)
    THEN <<EmptyLine, data.description.v>>
    ELSE <<>>

convertMetadata(section) ==
    Join(MetadataTitleLines(section.data) \o MetadataDescriptionLines(section.data))

TitleLine(section) == IF Has(section, "title") THEN section.title ELSE <<"undefined">>
ContentText(section) == IF Has(section, "content") THEN section.content ELSE << <<"undefined">> >>

convertInstructions(section) ==
    << <<"## ">> \o TitleLine(section), EmptyLine >>
    \o (IF Has(section, "priority") /\ section.priority = "high"
        THEN << <<"**Important:**">>, EmptyLine >> ELSE <<>>)
    \o ContentText(section)

RuleLines(rule, index, ordered) ==
    << (IF ordered THEN <<Ordinal[index], ".">> ELSE <<"-">>) \o <<" ">> \o rule.content >>
    \o (IF Has(rule, "rationale") /\ rule.rationale # <<>>
        THEN << <<"   - *Rationale: ">> \o rule.rationale \o <<"*">> >> ELSE <<>>)
    \o (IF Has(rule, "examples")
        THEN [k \in 1..Len(rule.examples) |-> <<"   - Example: ", Atom.Backtick>> \o rule.examples[k] \o <<Atom.Backtick>>]
        ELSE <<>>)

RECURSIVE RulesLines(_, _, _)
RulesLines(items, index, ordered) ==
    IF index > Len(items) THEN <<>>
    ELSE RuleLines(items[index], index, ordered) \o RulesLines(items, index + 1, ordered)

convertRules(section) ==
    << <<"## ">> \o TitleLine(section), EmptyLine >>
    \o RulesLines(section.items, 1, Has(section, "ordered") /\ section.ordered)

ExampleLines(example) ==
    << <<"### ">> \o (IF Has(example, "good") /\ example.good = FALSE THEN <<Atom.CrossMark, " Bad">> ELSE <<Atom.CheckMark, " Good">>)
         \o <<": ">> \o example.description,
       EmptyLine,
       <<Atom.Fence>> \o (IF Has(example, "language") THEN example.language ELSE <<>>) >>
    \o example.code
    \o << <<Atom.Fence>>, EmptyLine >>

RECURSIVE ExamplesLines(_, _)
ExamplesLines(examples, index) ==
    IF index > Len(examples) THEN <<>>
    ELSE ExampleLines(examples[index]) \o ExamplesLines(examples, index + 1)

convertExamples(section) ==
    << <<"## ">> \o TitleLine(section), EmptyLine >> \o ExamplesLines(section.examples, 1)

RECURSIVE JoinComma(_)
JoinComma(a) ==
    IF a = <<>> THEN <<>>
    ELSE IF Len(a) = 1 THEN a[1]
    ELSE a[1] \o <<", ">> \o JoinComma(Tail(a))

PersonaHeadLines(data) ==
    IF Has(data, "icon") /\ Truthy(data.icon) /\ IsString(data.icon)
          /\ Has(data, "name") /\ Truthy(data.name) /\ IsString(data.name)
          /\ Has(data, "role") /\ IsString(data.role)
    THEN << data.icon.v \o <<" **">> \o data.name.v \o <<"** - ">> \o data.role.v >>
    ELSE IF Has(data, "name") /\ Truthy(data.name) /\ IsString(data.name)
          /\ Has(data, "role") /\ IsString(data.role)
    THEN << <<"**">> \o data.name.v \o <<"** - ">> \o data.role.v >>
    ELSE IF Has(data, "role") /\ IsString(data.role)
    THEN << data.role.v >>
    ELSE <<>>

convertPersona(section) ==
    << <<"## Role">>, EmptyLine >>
    \o PersonaHeadLines(section.data)
    \o (IF Has(section.data, "style") /\ Len(section.data.style.v) > 0
        THEN << EmptyLine, <<"**Style:** ">> \o JoinComma(section.data.style.v) >> ELSE <<>>)
    \o (IF Has(section.data, "expertise") /\ Len(section.data.expertise.v) > 0
        THEN << EmptyLine, <<"**Expertise:**">> >>
             \o [k \in 1..Len(section.data.expertise.v) |-> <<"- ">> \o section.data.expertise.v[k]]
        ELSE <<>>)

convertContext(section) ==
    << <<"## ">> \o TitleLine(section), EmptyLine >> \o ContentText(section)

ToolsWarningUnnamed == <<"Tools section ", "skipped">>
ToolsWarning == <<"Tools section ", "skipped", " (Claude-specific)">>
CustomWarningUnnamed(editorType) == <<"Custom section ", "skipped">>
CustomWarning(editorType) == <<"Custom ", editorType, " section ", "skipped">>
UnknownWarning(type) == <<"Unknown section type: ", type>>

convertSection(section, warnings) ==
    CASE section.type = "metadata" ->
            IF Has(section, "data") THEN Returned(convertMetadata(section), warnings)
            ELSE Thrown(DestructureError, warnings)
      [] section.type = "instructions" -> Returned(convertInstructions(section), warnings)
      [] section.type = "rules" ->
            IF Has(section, "items") THEN Returned(convertRules(section), warnings)
            ELSE Thrown(ForEachError, warnings)
      [] section.type = "examples" ->
            IF Has(section, "examples") THEN Returned(convertExamples(section), warnings)
            ELSE Thrown(ForEachError, warnings)
      [] section.type = "persona" ->
            IF Has(section, "data") THEN Returned(convertPersona(section), warnings)
            ELSE Thrown(DestructureError, warnings)
      [] section.type = "context" -> Returned(convertContext(section), warnings)
      [] section.type = "tools" -> Returned(EmptyString, Append(warnings, ToolsWarning))
      [] section.type = "custom" ->
            IF ~Has(section, "editorType") \/ section.editorType = "cursor"
            THEN Returned(ContentText(section), warnings)
            ELSE Returned(EmptyString, Append(warnings, CustomWarning(section.editorType)))
      [] OTHER -> Returned(EmptyString, Append(warnings, UnknownWarning(section.type)))

(***************************************************************************)
(* toCursor: header, content, scoring                                      *)
(***************************************************************************)
HasMeta(p, field) == Has(p, "metadata") /\ Has(p.metadata, field)
HasConfig(o, field) == Has(o, "cursorConfig") /\ Has(o.cursorConfig, field)

HeaderGlobs(p, o) ==
    IF HasConfig(o, "globs") THEN o.cursorConfig.globs
    ELSE IF HasMeta(p, "globs") THEN p.metadata.globs
    ELSE <<>>

HeaderAlwaysApply(p, o) ==
    IF HasConfig(o, "alwaysApply") THEN o.cursorConfig.alwaysApply
    ELSE IF HasMeta(p, "alwaysApply") THEN p.metadata.alwaysApply
    ELSE FALSE

generateMDCHeader(p, o) ==
    << <<"---">> >>
    \o (IF HasMeta(p, "description") /\ p.metadata.description # <<>>
        THEN << <<"description: \"">> \o p.metadata.description \o <<"\"">> >> ELSE <<>>)
    \o (IF Len(HeaderGlobs(p, o)) > 0
        THEN << <<"globs:">> >>
             \o [k \in 1..Len(HeaderGlobs(p, o)) |-> <<"  - \"">> \o HeaderGlobs(p, o)[k] \o <<"\"">>]
        ELSE <<>>)
    \o << <<"alwaysApply: ", IF HeaderAlwaysApply(p, o) THEN "true" ELSE "false">> >>
    \o (IF HasMeta(p, "title") /\ p.metadata.title # <<>>
        THEN << <<"# title: \"">> \o p.metadata.title \o <<"\"">> >>
        ELSE IF Has(p, "id") /\ p.id # <<>> THEN << <<"# title: \"">> \o p.id \o <<"\"">> >> ELSE <<>>)
    \o (IF HasConfig(o, "version") /\ o.cursorConfig.version # <<>>
        THEN << <<"# version: \"">> \o o.cursorConfig.version \o <<"\"">> >>
        ELSE IF HasMeta(p, "version") /\ p.metadata.version # <<>>
        THEN << <<"# version: \"">> \o p.metadata.version \o <<"\"">> >> ELSE <<>>)
    \o (IF HasConfig(o, "tags") /\ Len(o.cursorConfig.tags) > 0
        THEN << <<"# tags:">> >>
             \o [k \in 1..Len(o.cursorConfig.tags) |-> <<"#   - \"">> \o o.cursorConfig.tags[k] \o <<"\"">>]
        ELSE <<>>)
    \o (IF HasConfig(o, "author") /\ o.cursorConfig.author # <<>>
        THEN << <<"# author: \"">> \o o.cursorConfig.author \o <<"\"">> >> ELSE <<>>)
    \o << <<"---">> >>

\* lines.push(sectionContent); lines.push('') of convertContent, with the
\* index of the section recorded in push order
PushRenderedFirst(acc, text, i) ==
    [acc EXCEPT !.lines = text \o <<EmptyLine>> \o @, !.order = <<i>> \o @]

PushRendered(acc, text, i) ==
    [acc EXCEPT !.lines = @ \o text \o <<EmptyLine>>, !.order = Append(@, i)]

RECURSIVE convertContentFrom(_, _, _)
convertContentFrom(secs, i, acc) ==
    IF i > Len(secs)
    THEN [threw |-> FALSE, text |-> TrimText(Join(acc.lines)),
          warnings |-> acc.warnings, order |-> acc.order]
    ELSE LET r == convertSection(secs[i], acc.warnings)
         IN  IF r.threw
             THEN [threw |-> TRUE, message |-> r.message,
                   warnings |-> r.warnings, order |-> acc.order]
             ELSE convertContentFrom(secs, i + 1,
                    IF r.text # EmptyString
                    THEN PushRendered([acc EXCEPT !.warnings = r.warnings], r.text, i)
                    ELSE [acc EXCEPT !.warnings = r.warnings])

convertContent(p, warnings) ==
    IF ~Has(p, "content")
    THEN [threw |-> TRUE, message |-> ContentError, warnings |-> warnings, order |-> <<>>]
    ELSE IF ~Has(p.content, "sections")
    THEN [threw |-> TRUE, message |-> SectionsError, warnings |-> warnings, order |-> <<>>]
    ELSE convertContentFrom(p.content.sections, 1,
                            [lines |-> <<>>, warnings |-> warnings, order |-> <<>>])

\* warnings.some(w => w.includes('not supported') || w.includes('skipped'))
IsLossyWarning(w) == Includes(w, "not supported") \/ Includes(w, "skipped")
SomeLossy(warnings) == \E k \in 1..Len(warnings) : IsLossyWarning(warnings[k])

QualityScoreNoPenalty(lossyConversion) == 100

\* let qualityScore = 100; if (lossyConversion) qualityScore -= 10
QualityScore(lossyConversion) == IF lossyConversion THEN 100 - 10 ELSE 100

NormalResultPerSection(header, c) ==
    LET lossy == {k \in 1..Len(c.warnings) : IsLossyWarning(c.warnings[k])}
        base == [content |-> header \o <<EmptyLine>> \o c.text,
                 format |-> "cursor",
                 lossyConversion |-> lossy # {},
                 qualityScore |-> 100 - 10 * Cardinality(lossy)]
    IN  IF Len(c.warnings) > 0
        THEN [content |-> base.content, format |-> base.format, warnings |-> c.warnings,
              lossyConversion |-> base.lossyConversion, qualityScore |-> base.qualityScore]
        ELSE base

\* the return statement of the try block
NormalResult(header, c) ==
    LET base == [content |-> header \o <<EmptyLine>> \o c.text,
                 format |-> "cursor",
                 lossyConversion |-> SomeLossy(c.warnings),
                 qualityScore |-> QualityScore(SomeLossy(c.warnings))]
    IN  IF Len(c.warnings) > 0
        THEN [content |-> base.content, format |-> base.format, warnings |-> c.warnings,
              lossyConversion |-> base.lossyConversion, qualityScore |-> base.qualityScore]
        ELSE base

RethrowFault(c) == [raised |-> TRUE, order |-> c.order]

\* the catch block
CatchFault(c) ==
    [raised |-> FALSE, order |-> c.order,
     value |-> [content |-> EmptyString, format |-> "cursor",
                warnings |-> Append(c.warnings, <<"Conversion error: ", c.message>>),
                lossyConversion |-> TRUE, qualityScore |-> 0]]

toCursor(p, o) ==
    LET c == convertContent(p, <<>>)
    IN  IF c.threw THEN CatchFault(c)
        ELSE [raised |-> FALSE, order |-> c.order,
              value |-> NormalResult(generateMDCHeader(p, o), c)]

(***************************************************************************)
(* toCursor: inputs                                                        *)
(***************************************************************************)
Fixture ==
    [MetadataSection |->
        [type |-> "metadata",
             data |-> [title |-> Str(<<"Test Agent">>),
             description |-> Str(<<"A test agent for conversion testing">>)]],
     MetadataIconSection |->
        [type |-> "metadata",
             data |-> [title |-> Str(<<"Test Agent">>), description |-> Str(<<>>), icon |-> Str(<<"icon">>)]],
     MetadataNumberTitle |->
        [type |-> "metadata", data |-> [title |-> Num(42), description |-> Str(<<"Numeric title">>)]],
     MetadataNoData |->
        [type |-> "metadata"],
     InstructionsSection |->
        [type |-> "instructions", title |-> <<"Core Principles">>,
             content |-> << <<"Always write comprehensive tests">> >>, priority |-> "high"],
     RulesSection |->
        [type |-> "rules", title |-> <<"Testing Guidelines">>, ordered |-> TRUE,
             items |-> << [content |-> <<"Write tests before code (TDD)">>,
             rationale |-> <<"Ensures better design and prevents bugs">>,
             examples |-> << <<"test(\"should work\")">> >>],
             [content |-> <<"Test edge cases thoroughly">>] >>],
     RulesNoItems |->
        [type |-> "rules", title |-> <<"Rules">>],
     ExamplesSection |->
        [type |-> "examples", title |-> <<"Code Examples">>,
             examples |-> << [description |-> <<"Good test structure">>,
             code |-> << <<"describe(\"feature\")">> >>,
             language |-> <<"typescript">>, good |-> TRUE],
             [description |-> <<"Missing assertions">>,
             code |-> << <<"test(\"something\")">> >>, good |-> FALSE] >>],
     PersonaSection |->
        [type |-> "persona",
             data |-> [name |-> Str(<<"TestBot">>), role |-> Str(<<"Testing Assistant">>),
             icon |-> Str(<<"robot">>), style |-> Arr(<< <<"precise">>, <<"thorough">> >>),
             expertise |-> Arr(<< <<"unit testing">> >>)]],
     ContextSection |->
        [type |-> "context", title |-> <<"Background">>,
             content |-> << <<"This agent was created to assist with testing tasks">> >>],
     ToolsSection |->
        [type |-> "tools", tools |-> << <<"Read">>, <<"Write">>, <<"Bash">> >>],
     CustomCursorSection |->
        [type |-> "custom", editorType |-> "cursor",
             content |-> << <<"## ", "Custom Cursor Feature">>, EmptyLine, <<"Cursor-specific content">> >>],
     CustomClaudeSection |->
        [type |-> "custom", editorType |-> "claude", content |-> << <<"Claude-only content">> >>],
     CustomGenericSection |->
        [type |-> "custom", content |-> << <<"Generic content">> >>],
     UnknownSection |->
        [type |-> "unknown", data |-> [note |-> Str(<<>>)]]]

SectionVocabulary ==
    {Fixture.MetadataSection, Fixture.MetadataIconSection, Fixture.MetadataNumberTitle, Fixture.MetadataNoData,
     Fixture.InstructionsSection, Fixture.RulesSection, Fixture.RulesNoItems, Fixture.ExamplesSection, Fixture.PersonaSection,
     Fixture.ContextSection, Fixture.ToolsSection, Fixture.CustomCursorSection, Fixture.CustomClaudeSection,
     Fixture.CustomGenericSection, Fixture.UnknownSection}

SectionLists(n) == [1..n -> SectionVocabulary]

PackageMetadata == [title |-> <<"Test Agent">>, description |-> <<"A test agent">>]

Canonical(s) == [format |-> "canonical", version |-> "1.0", sections |-> s]

Packages(s) ==
    {[id |-> <<"test-package">>, metadata |-> PackageMetadata, content |-> Canonical(s)],
     [id |-> <<"test-package">>, content |-> Canonical(s)]}

\* a package whose content is missing
NoContent == [id |-> <<"test-package">>, metadata |-> PackageMetadata]

OptionsSet ==
    {[format |-> "cursor"],
     [format |-> "cursor",
      cursorConfig |-> [version |-> <<"1.0.0">>, globs |-> << <<"**/*.ts">> >>,
                        alwaysApply |-> TRUE, author |-> <<"prpm">>,
                        tags |-> << <<"testing">> >>]]}

NoResult == [format |-> "none"]

(***************************************************************************)
(* toCursor: the call                                                      *)
(***************************************************************************)
NoPackage == [sourceFormat |-> "none"]

\* no fromAgentsMd call in progress
ParserIdle ==
    /\ ppc = "idle"
    /\ content = EmptyString
    /\ metadata = [id |-> <<>>, name |-> <<>>]
    /\ frontmatter = [key \in {} |-> <<>>]
    /\ body = <<>>
    /\ lineIndex = 1
    /\ sections = <<>>
    /\ currentSection = null
    /\ inCodeBlock = FALSE
    /\ currentCodeBlock = null
    /\ parsedPkg = NoPackage

\* no prpm test command running
CliIdle ==
    /\ tpc = "idle"
    /\ argv = <<>>
    /\ testRun = [mode |-> "none"]
    /\ jobRow = [status |-> "none"]
    /\ attempts = 0
    /\ exitCode = -1

\* no hosted test job queue: empty tables and no worker
QueueIdle ==
    /\ test_jobs = <<>>
    /\ user_test_usage = <<>>
    /\ wpc = <<>>
    /\ snapshot = <<>>
    /\ job_id = <<>>
    /\ claims = <<>>
    /\ reply = [code |-> 0]

\* no toCursor call in progress
CursorIdle ==
    /\ cpc = "idle"
    /\ pkg = [id |-> <<>>]
    /\ options = [format |-> "cursor"]
    /\ result = NoResult
    /\ error = <<>>
    /\ rendered = <<>>

InitCursor ==
    /\ cpc = "call"
    /\ options \in OptionsSet
    /\ \/ \E n \in 0..MaxSections : \E s \in SectionLists(n) : pkg \in Packages(s)
       \/ pkg = NoContent
    /\ result = NoResult
    /\ error = <<>>
    /\ rendered = <<>>
    /\ ParserIdle
    /\ QueueIdle
    /\ CliIdle

ToCursor ==
    /\ cpc = "call"
    /\ LET r == toCursor(pkg, options)
       IN  /\ cpc' = IF r.raised THEN "raised" ELSE "returned"
           /\ result' = IF r.raised THEN NoResult ELSE r.value
           /\ rendered' = r.order
    /\ UNCHANGED <<pkg, options, error>>
    /\ UNCHANGED <<pvars, qvars, tvars>>

NextCursor == ToCursor

SpecCursor == InitCursor /\ [][NextCursor]_vars

(***************************************************************************)
(* toCursor: properties                                                    *)
(***************************************************************************)
InputSections == IF Has(pkg, "content") THEN pkg.content.sections ELSE <<>>
ResultWarnings == IF Has(result, "warnings") THEN result.warnings ELSE <<>>

\* a section whose required field is missing: rendering it faults
MissingRequiredField(s) ==
    \/ s.type \in {"metadata", "persona"} /\ ~Has(s, "data")
    \/ s.type = "rules" /\ ~Has(s, "items")
    \/ s.type = "examples" /\ ~Has(s, "examples")

RenderingFaults ==
    \/ ~Has(pkg, "content")
    \/ \E i \in 1..Len(InputSections) : MissingRequiredField(InputSections[i])

\* the lossy-classification rule of the specification
MatchesLossyRule(w) == \E k \in 1..Len(w) : w[k] \in {"not supported", "skipped"}

\* C1: every result of toCursor with lossyConversion = false has qualityScore
\* 100, and every result with a warning that contains "not supported" or
\* "skipped" has lossyConversion = true and qualityScore below 100.
C1_LossyFlagAndScore ==
    cpc = "returned" =>
        /\ (~result.lossyConversion => result.qualityScore = 100)
        /\ ((\E k \in 1..Len(ResultWarnings) : MatchesLossyRule(ResultWarnings[k]))
               => result.lossyConversion /\ result.qualityScore < 100)

C1_Witness ==
    /\ cpc = "returned"
    /\ ~RenderingFaults
    /\ \E k \in 1..Len(ResultWarnings) : MatchesLossyRule(ResultWarnings[k])
    /\ result.lossyConversion
    /\ result.qualityScore = 90

\* a section the Cursor format cannot express, and the warning that names it
CannotExpress(s) ==
    \/ s.type = "tools"
    \/ s.type = "custom" /\ Has(s, "editorType") /\ s.editorType # "cursor"
    \/ s.type \notin {"metadata", "instructions", "rules", "examples", "persona",
                      "context", "tools", "custom"}

WarningFor(s) ==
    IF s.type = "tools" THEN ToolsWarning
    ELSE IF s.type = "custom" THEN CustomWarning(s.editorType)
    ELSE UnknownWarning(s.type)

\* C2: whenever toCursor leaves out a tools section, a custom section tagged
\* for another editor or a section of unrecognized type, the result carries
\* the warning for that section, lossyConversion = true and qualityScore < 100.
C2_SkippedSectionIsLossy ==
    (cpc = "returned" /\ ~RenderingFaults) =>
        \A i \in 1..Len(InputSections) :
            CannotExpress(InputSections[i]) =>
                /\ \E k \in 1..Len(ResultWarnings) : ResultWarnings[k] = WarningFor(InputSections[i])
                /\ result.lossyConversion
                /\ result.qualityScore < 100

\* C3: toCursor never raises; when rendering faults (a section's data, items
\* or examples field is missing, or the package has no content) the result
\* has empty content, lossyConversion = true, qualityScore = 0 and a warning
\* that carries the fault message.
C3_FaultIsReturned ==
    /\ cpc # "raised"
    /\ (cpc = "returned" /\ RenderingFaults) =>
          /\ result.content = EmptyString
          /\ result.lossyConversion
          /\ result.qualityScore = 0
          /\ \E k \in 1..Len(ResultWarnings) :
                /\ ResultWarnings[k][1] = "Conversion error: "
                /\ ResultWarnings[k][2] \in {DestructureError, ForEachError, SectionsError, ContentError}

C3_Witness ==
    /\ cpc = "returned"
    /\ \E i \in 1..Len(InputSections) : MissingRequiredField(InputSections[i])
    /\ result.qualityScore = 0
    /\ result.content = EmptyString

\* a section that fails the shape check of its kind
StructurallyInvalid(s) ==
    \/ MissingRequiredField(s)
    \/ s.type = "metadata" /\ Has(s, "data")
          /\ (~Has(s.data, "title") \/ ~IsString(s.data.title))

\* C4: if the input contains a structurally invalid section (such as a
\* metadata section whose title is not a string), the result of toCursor has
\* qualityScore = 0, lossyConversion = true and a non-empty warning list.
C4_InvalidSectionReported ==
    (cpc = "returned" /\ \E i \in 1..Len(InputSections) : StructurallyInvalid(InputSections[i])) =>
        /\ result.qualityScore = 0
        /\ result.lossyConversion
        /\ Len(ResultWarnings) > 0

RECURSIVE BlocksInOrder(_, _, _)
BlocksInOrder(secs, order, k) ==
    IF k > Len(order) THEN <<>>
    ELSE convertSection(secs[order[k]], <<>>).text \o <<EmptyLine>>
         \o BlocksInOrder(secs, order, k + 1)

\* C5: the sections that appear in the output of toCursor appear in the
\* relative order of the input section list: the rendered sections are the
\* input sections with a non-empty rendering, their text is emitted in
\* increasing input position, and nothing else is emitted after the header.
C5_SectionOrderPreserved ==
    (cpc = "returned" /\ ~RenderingFaults) =>
        /\ \A i, j \in 1..Len(rendered) : i < j => rendered[i] < rendered[j]
        /\ {rendered[i] : i \in 1..Len(rendered)}
              = {i \in 1..Len(InputSections) :
                    convertSection(InputSections[i], <<>>).text # EmptyString}
        /\ result.content = generateMDCHeader(pkg, options) \o <<EmptyLine>>
                            \o TrimText(Join(BlocksInOrder(InputSections, rendered, 1)))

C5_Witness ==
    /\ cpc = "returned"
    /\ ~RenderingFaults
    /\ Len(InputSections) = 3
    /\ rendered = <<1, 3>>
    /\ InputSections[1].type # InputSections[3].type
    /\ CannotExpress(InputSections[2])

(***************************************************************************)
(* fromAgentsMd: string helpers                                            *)
(***************************************************************************)
Digits == {"0", "1", "2", "3", "4", "5", "6", "7", "8", "9"}

StartsWith(line, prefix) ==
    Len(line) >= Len(prefix) /\ SubSeq(line, 1, Len(prefix)) = prefix

\* String.prototype.substring(n) when the first n atoms are single characters
Substring(line, n) == SubSeq(line, n + 1, Len(line))

RECURSIVE TrimStart(_)
TrimStart(line) ==
    IF line # <<>> /\ Head(line) = " " THEN TrimStart(Tail(line)) ELSE line

RECURSIVE TrimEnd(_)
TrimEnd(line) ==
    IF line # <<>> /\ line[Len(line)] = " " THEN TrimEnd(SubSeq(line, 1, Len(line) - 1)) ELSE line

Trim(line) == TrimEnd(TrimStart(line))

\* String.prototype.toLowerCase on an atom
ToLowerCase(atom) ==
    CASE atom = "Preferred" -> "preferred"
      [] atom = "Avoid" -> "avoid"
      [] atom = "Do" -> "do"
      [] atom = "Don't" -> "don't"
      [] atom = "Examples" -> "examples"
      [] atom = "Rules" -> "rules"
      [] atom = "Guidelines" -> "guidelines"
      [] atom = "Overview" -> "overview"
      [] atom = "Usage" -> "usage"
      [] atom = "Bad" -> "bad"
      [] atom = "Good" -> "good"
      [] OTHER -> atom

\* the keywords of inferSectionType and of the example markers that occur
\* as substrings of a lower-case atom
KeywordsOf(atom) ==
    CASE atom = "examples" -> {"example"}
      [] atom = "usage" -> {"usage"}
      [] atom = "rules" -> {"rule"}
      [] atom = "guidelines" -> {"guideline"}
      [] atom = "overview" -> {"overview"}
      [] atom = "preferred" -> {"preferred"}
      [] atom = "avoid" -> {"avoid"}
      [] OTHER -> {}

\* str.toLowerCase().includes(keyword)
IncludesKeyword(line, keyword) ==
    \E k \in 1..Len(line) : keyword \in KeywordsOf(ToLowerCase(line[k]))

\* str.toLowerCase().includes('do:')
IncludesDoColon(line) ==
    \E k \in 1..Len(line) - 1 : ToLowerCase(line[k]) = "do" /\ line[k + 1] = ":"

\* line.match(/^\d+\.\s/)
MatchesOrdinal(line) ==
    \E n \in 1..Len(line) :
        /\ \A k \in 1..n : line[k] \in Digits
        /\ Len(line) >= n + 2
        /\ line[n + 1] = "."
        /\ line[n + 2] = " "

\* str.replace(/^[-\d.]\s+/, '')
StripListMarker(line) ==
    IF Len(line) >= 2 /\ line[1] \in ({"-", "."} \cup Digits) /\ line[2] = " "
    THEN TrimStart(Tail(line))
    ELSE line

\* str.replace(/^[U+2705 U+274C]\s*/, '')
StripEmojiMarker(line) ==
    IF line # <<>> /\ line[1] \in {Atom.CheckMark, Atom.CrossMark} THEN TrimStart(Tail(line)) ELSE line

\* str.replace(/^(Preferred|Avoid|Do|Don't):\s*/i, '')
StripKeywordMarker(line) ==
    IF Len(line) >= 2 /\ ToLowerCase(line[1]) \in {"preferred", "avoid", "do", "don't"}
          /\ line[2] = ":"
    THEN TrimStart(Substring(line, 2))
    ELSE line

StripRationaleMarkerKept(line) == line

\* str.replace(/^(Rationale|Why):\s*/, '')
StripRationaleMarker(line) ==
    IF Len(line) >= 2 /\ line[1] \in {"Rationale", "Why"} /\ line[2] = ":"
    THEN TrimStart(Substring(line, 2))
    ELSE line

\* position of the first backtick at or after position k, 0 if there is none
RECURSIVE NextBacktick(_, _)
NextBacktick(line, k) ==
    IF k > Len(line) THEN 0
    ELSE IF line[k] = Atom.Backtick THEN k ELSE NextBacktick(line, k + 1)

\* str.replace(/^Example:\s*BACKTICK([^BACKTICK]+)BACKTICK/, '$1')
StripExampleMarker(line) ==
    IF Len(line) >= 2 /\ line[1] = "Example" /\ line[2] = ":"
    THEN LET rest == TrimStart(Substring(line, 2))
             close == NextBacktick(rest, 2)
         IN  IF rest # <<>> /\ rest[1] = Atom.Backtick /\ close > 2
             THEN SubSeq(rest, 2, close - 1) \o SubSeq(rest, close + 1, Len(rest))
             ELSE line
    ELSE line

(***************************************************************************)
(* fromAgentsMd: front matter, description, tags, section kinds            *)
(***************************************************************************)
FrontmatterDelimiter == <<"---">>

\* index of the line that closes the front matter (the first "---" line at
\* or after line 3 that is followed by a newline), 0 if the regular
\* expression /^---\n([\s\S]*?)\n---\n([\s\S]*)$/ does not match
RECURSIVE ClosingDelimiter(_, _)
ClosingDelimiter(lines, k) ==
    IF k >= Len(lines) THEN 0
    ELSE IF lines[k] = FrontmatterDelimiter THEN k ELSE ClosingDelimiter(lines, k + 1)

FrontmatterMatch(lines) ==
    IF Len(lines) >= 1 /\ lines[1] = FrontmatterDelimiter THEN ClosingDelimiter(lines, 3) ELSE 0

\* js-yaml: a flow sequence that is opened and never closed is a YAMLException
YamlThrows(lines) == \E k \in 1..Len(lines) : \E a \in 1..Len(lines[k]) : lines[k][a] = "["

\* yaml.load of "key: value" lines, restricted to the string-valued keys
\* project and scope that parseFrontmatter copies
YamlKeys(lines) ==
    {key \in {"project", "scope"} :
        \E k \in 1..Len(lines) : StartsWith(lines[k], <<key, ":", " ">>) /\ Len(lines[k]) > 3}

YamlValue(lines, key) ==
    LET k == CHOOSE n \in 1..Len(lines) :
                /\ StartsWith(lines[n], <<key, ":", " ">>) /\ Len(lines[n]) > 3
                /\ \A m \in (n + 1)..Len(lines) :
                      ~(StartsWith(lines[m], <<key, ":", " ">>) /\ Len(lines[m]) > 3)
    IN  Substring(lines[k], 3)

YamlRethrown(lines) == [raised |-> TRUE]

\* the catch block of parseFrontmatter
YamlCaught(lines) ==
    [raised |-> FALSE, frontmatter |-> [key \in {} |-> <<>>], body |-> lines]

parseFrontmatter(lines) ==
    LET close == FrontmatterMatch(lines)
        frontmatterText == SubSeq(lines, 2, close - 1)
    IN  IF close = 0
        THEN [raised |-> FALSE, frontmatter |-> [key \in {} |-> <<>>], body |-> lines]
        ELSE IF YamlThrows(frontmatterText) THEN YamlCaught(lines)
        ELSE [raised |-> FALSE,
              frontmatter |-> [key \in YamlKeys(frontmatterText) |-> YamlValue(frontmatterText, key)],
              body |-> SubSeq(lines, close + 1, Len(lines))]

\* the line prefixes parseMarkdown tests with startsWith
Prefix ==
    [H1 |-> <<"#", " ">>, H2 |-> <<"#", "#", " ">>, H3 |-> <<"#", "#", "#", " ">>,
     List |-> <<"-", " ">>, SubBullet |-> <<" ", " ", " ", "-", " ">>]

RECURSIVE DescriptionLines(_, _, _)
DescriptionLines(lines, k, afterHeading) ==
    IF k > Len(lines) THEN <<>>
    ELSE IF StartsWith(lines[k], Prefix.H1) THEN DescriptionLines(lines, k + 1, TRUE)
    ELSE IF afterHeading /\ (StartsWith(lines[k], Prefix.H2) \/ StartsWith(lines[k], Prefix.H3))
    THEN <<>>
    ELSE IF afterHeading /\ Trim(lines[k]) # <<>>
    THEN <<Trim(lines[k])>> \o DescriptionLines(lines, k + 1, afterHeading)
    ELSE DescriptionLines(lines, k + 1, afterHeading)

RECURSIVE JoinSpace(_)
JoinSpace(a) ==
    IF a = <<>> THEN <<>>
    ELSE IF Len(a) = 1 THEN a[1]
    ELSE a[1] \o <<" ">> \o JoinSpace(Tail(a))

\* number of characters of an atom
AtomLength(atom) ==
    CASE atom = "My Rules" -> 8
      [] atom = "Intro text." -> 11
      [] atom = "Use strict types" -> 16
      [] atom = "fewer runtime errors" -> 20
      [] atom = "missing assertions" -> 18
      [] atom = "Basic call" -> 10
      [] atom = "Guidelines" -> 10
      [] atom = "Examples" -> 8
      [] atom = "Setup" -> 5
      [] atom = "Rationale" -> 9
      [] atom = "Bad" -> 3
      [] atom = Atom.Fence -> 3
      [] OTHER -> 1

DescriptionLimit == 200

\* str.substring(0, limit): the atoms that fit whole, then a cut marker if
\* the next atom straddles the limit
RECURSIVE SubstringTo(_, _)
SubstringTo(line, limit) ==
    IF line = <<>> \/ limit <= 0 THEN <<>>
    ELSE IF AtomLength(Head(line)) <= limit
    THEN <<Head(line)>> \o SubstringTo(Tail(line), limit - AtomLength(Head(line)))
    ELSE <<"<cut>">>

extractDescription(lines) ==
    SubstringTo(JoinSpace(DescriptionLines(lines, 1, FALSE)), DescriptionLimit)

techKeywords ==
    <<"typescript", "javascript", "python", "react", "testing", "api", "backend",
      "frontend", "database", "security">>

\* the technology keywords that occur as substrings of a lower-case atom
TagKeywordsOf(atom) ==
    CASE atom = "use typescript" -> {"typescript"}
      [] atom = "react api testing" -> {"react", "api", "testing"}
      [] atom = "python backend database security" -> {"python", "backend", "database", "security"}
      [] atom = "openai codex" -> {"codex", "openai"}
      [] OTHER -> {}

\* content.toLowerCase().includes(keyword)
BodyIncludes(lines, keyword) ==
    \E k \in 1..Len(lines) : \E a \in 1..Len(lines[k]) :
        keyword \in TagKeywordsOf(ToLowerCase(lines[k][a]))

inferTags(lines) ==
    LET tech == SelectSeq(techKeywords, LAMBDA kw : BodyIncludes(lines, kw))
        tags == IF BodyIncludes(lines, "codex") \/ BodyIncludes(lines, "openai")
                THEN Append(tech, "codex") ELSE tech
        first == SubSeq(tags, 1, IF Len(tags) < 5 THEN Len(tags) ELSE 5)
    IN  [k \in 1..Len(first) |-> <<first[k]>>]

LookaheadLimit(lines, startIndex) ==
    IF startIndex + 4 < Len(lines) THEN startIndex + 4 ELSE Len(lines)

RECURSIVE Lookahead(_, _, _)
Lookahead(lines, k, last) ==
    IF k > last THEN "instructions"
    ELSE IF StartsWith(Trim(lines[k]), Prefix.List) \/ MatchesOrdinal(Trim(lines[k])) THEN "rules"
    ELSE IF StartsWith(Trim(lines[k]), Prefix.H3) \/ StartsWith(Trim(lines[k]), <<Atom.Fence>>)
    THEN "examples"
    ELSE Lookahead(lines, k + 1, last)

inferSectionTypeRulesFirst(title, lines, startIndex) ==
    IF \E kw \in {"rule", "guideline", "standard", "convention", "requirement",
                  "must", "should"} : IncludesKeyword(title, kw) THEN "rules"
    ELSE IF \E kw \in {"example", "sample", "usage"} : IncludesKeyword(title, kw) THEN "examples"
    ELSE IF \E kw \in {"context", "background", "overview", "about", "introduction"} :
                IncludesKeyword(title, kw) THEN "context"
    ELSE Lookahead(lines, startIndex + 1, LookaheadLimit(lines, startIndex))

\* startIndex is the position of the heading line in lines
inferSectionType(title, lines, startIndex) ==
    IF \E kw \in {"example", "sample", "usage"} : IncludesKeyword(title, kw) THEN "examples"
    ELSE IF \E kw \in {"rule", "guideline", "standard", "convention", "requirement",
                       "must", "should"} : IncludesKeyword(title, kw) THEN "rules"
    ELSE IF \E kw \in {"context", "background", "overview", "about", "introduction"} :
                IncludesKeyword(title, kw) THEN "context"
    ELSE Lookahead(lines, startIndex + 1, LookaheadLimit(lines, startIndex))

buildSection(parsed) ==
    CASE parsed.type = "rules" ->
            [type |-> "rules", title |-> parsed.title,
             items |-> IF Has(parsed, "items") THEN parsed.items ELSE <<>>,
             ordered |-> FALSE]
      [] parsed.type = "examples" ->
            [type |-> "examples", title |-> parsed.title,
             examples |-> IF Has(parsed, "examples") THEN parsed.examples ELSE <<>>]
      [] parsed.type = "context" ->
            [type |-> "context", title |-> parsed.title, content |-> Join(parsed.content)]
      [] OTHER ->
            [type |-> "instructions", title |-> parsed.title, content |-> Join(parsed.content)]

(***************************************************************************)
(* fromAgentsMd: the call, one step per line of parseMarkdown              *)
(***************************************************************************)
ParseFrontmatter ==
    /\ ppc = "start"
    /\ LET r == parseFrontmatter(content)
       IN  IF r.raised
           THEN /\ ppc' = "raised"
                /\ UNCHANGED <<frontmatter, body>>
           ELSE /\ ppc' = "scan"
                /\ frontmatter' = r.frontmatter
                /\ body' = r.body
    /\ UNCHANGED <<content, metadata, lineIndex, sections, currentSection, inCodeBlock,
                   currentCodeBlock, parsedPkg>>
    /\ UNCHANGED <<cvars, qvars, tvars>>

Scanning == ppc = "scan" /\ lineIndex <= Len(body)
line == body[lineIndex]

IsHeader(l) == StartsWith(l, Prefix.H1) \/ StartsWith(l, Prefix.H2) \/ StartsWith(l, Prefix.H3)
IsFence(l) == StartsWith(l, <<Atom.Fence>>)
InRules == ~IsNull(currentSection) /\ currentSection.type = "rules"

\* sections.push(buildSection(currentSection)) when a section is open
PushCurrent == IF IsNull(currentSection) THEN sections
               ELSE Append(sections, buildSection(currentSection))

NextLine ==
    /\ lineIndex' = lineIndex + 1
    /\ UNCHANGED <<ppc, content, metadata, frontmatter, body, parsedPkg>>
    /\ UNCHANGED <<cvars, qvars, tvars>>

\* if (line.startsWith('# '))
Heading1 ==
    /\ Scanning
    /\ StartsWith(line, Prefix.H1)
    /\ sections' = PushCurrent
    /\ currentSection' = [type |-> "context", title |-> <<"Project Overview">>,
                          content |-> <<Trim(Substring(line, 2))>>]
    /\ UNCHANGED <<inCodeBlock, currentCodeBlock>>
    /\ NextLine

NewSection(sectionType, title) ==
    CASE sectionType = "rules" ->
            [type |-> sectionType, title |-> title, content |-> <<>>, items |-> <<>>]
      [] sectionType = "examples" ->
            [type |-> sectionType, title |-> title, content |-> <<>>, examples |-> <<>>]
      [] OTHER -> [type |-> sectionType, title |-> title, content |-> <<>>]

\* if (line.startsWith('## '))
Heading2 ==
    /\ Scanning
    /\ StartsWith(line, Prefix.H2)
    /\ sections' = PushCurrent
    /\ currentSection' = NewSection(inferSectionType(Trim(Substring(line, 3)), body, lineIndex),
                                    Trim(Substring(line, 3)))
    /\ UNCHANGED <<inCodeBlock, currentCodeBlock>>
    /\ NextLine

\* const good = description.startsWith(CHECK) || ...includes('preferred') || ...includes('do:')
Good(description) ==
    \/ StartsWith(description, <<Atom.CheckMark>>)
    \/ IncludesKeyword(description, "preferred")
    \/ IncludesDoColon(description)

ExampleDescription(description) == StripKeywordMarker(StripEmojiMarker(description))

\* if (line.startsWith('### '))
Heading3 ==
    /\ Scanning
    /\ StartsWith(line, Prefix.H3)
    /\ currentCodeBlock' = [description |-> ExampleDescription(Trim(Substring(line, 4))),
                            code |-> <<>>,
                            good |-> Good(Trim(Substring(line, 4)))]
    /\ UNCHANGED <<sections, currentSection, inCodeBlock>>
    /\ NextLine

\* the language tag of a fence line: line.substring(3).trim() || undefined
WithLanguage(block, l) ==
    LET language == Trim(Tail(l))
        bare == IF Has(block, "good")
                THEN [description |-> block.description, code |-> block.code, good |-> block.good]
                ELSE [description |-> block.description, code |-> block.code]
    IN  IF language = <<>> THEN bare
        ELSE IF Has(block, "good")
        THEN [description |-> block.description, code |-> block.code, good |-> block.good,
              language |-> language]
        ELSE [description |-> block.description, code |-> block.code, language |-> language]

\* if (line.startsWith(FENCE)) with !inCodeBlock
FenceOpen ==
    /\ Scanning
    /\ ~IsHeader(line)
    /\ IsFence(line)
    /\ ~inCodeBlock
    /\ inCodeBlock' = TRUE
    /\ currentCodeBlock' =
          IF ~IsNull(currentCodeBlock) THEN WithLanguage(currentCodeBlock, line)
          ELSE WithLanguage([description |-> <<"Code example">>, code |-> <<>>], line)
    /\ UNCHANGED <<sections, currentSection>>
    /\ NextLine

\* the Example pushed when a fence closes in an examples section
ExampleOf(block) ==
    LET e == [description |-> block.description, code |-> Join(block.code)]
    IN  CASE Has(block, "language") /\ Has(block, "good") ->
                [description |-> e.description, code |-> e.code,
                 language |-> block.language, good |-> block.good]
          [] Has(block, "language") /\ ~Has(block, "good") ->
                [description |-> e.description, code |-> e.code, language |-> block.language]
          [] ~Has(block, "language") /\ Has(block, "good") ->
                [description |-> e.description, code |-> e.code, good |-> block.good]
          [] OTHER -> e

\* the re-fenced text pushed to the content of a section that is not examples
Refenced(block) ==
    << <<Atom.Fence>> \o (IF Has(block, "language") THEN block.language ELSE <<>>) >>
    \o Join(block.code)
    \o << <<Atom.Fence>> >>

\* if (line.startsWith(FENCE)) with inCodeBlock
FenceClose ==
    /\ Scanning
    /\ ~IsHeader(line)
    /\ IsFence(line)
    /\ inCodeBlock
    /\ inCodeBlock' = FALSE
    /\ IF ~IsNull(currentCodeBlock) /\ ~IsNull(currentSection) /\ currentSection.type = "examples"
       THEN /\ currentSection' =
                  [currentSection EXCEPT !.examples = Append(@, ExampleOf(currentCodeBlock))]
            /\ currentCodeBlock' = null
       ELSE IF ~IsNull(currentCodeBlock) /\ ~IsNull(currentSection)
       THEN /\ currentSection' =
                  [currentSection EXCEPT !.content = @ \o Refenced(currentCodeBlock)]
            /\ currentCodeBlock' = null
       ELSE UNCHANGED <<currentSection, currentCodeBlock>>
    /\ UNCHANGED sections
    /\ NextLine

\* if (inCodeBlock && currentCodeBlock)
CodeLine ==
    /\ Scanning
    /\ ~IsHeader(line)
    /\ ~IsFence(line)
    /\ inCodeBlock /\ ~IsNull(currentCodeBlock)
    /\ currentCodeBlock' = [currentCodeBlock EXCEPT !.code = Append(@, line)]
    /\ UNCHANGED <<sections, currentSection, inCodeBlock>>
    /\ NextLine

NotCode == ~IsHeader(line) /\ ~IsFence(line) /\ ~(inCodeBlock /\ ~IsNull(currentCodeBlock))

IsListItem(l) == StartsWith(l, Prefix.List) \/ MatchesOrdinal(l)

\* if ((line.startsWith('- ') || line.match(/^\d+\.\s/)) && currentSection?.type === 'rules')
ListItem ==
    /\ Scanning
    /\ NotCode
    /\ IsListItem(line) /\ InRules
    /\ currentSection' =
          [currentSection EXCEPT !.items = Append(@, [content |-> Trim(StripListMarker(line))])]
    /\ UNCHANGED <<sections, inCodeBlock, currentCodeBlock>>
    /\ NextLine

IsSubBullet(l) == StartsWith(l, Prefix.SubBullet)

\* the last rule with the rationale, or the example, of a sub-bullet attached
WithSubBullet(item, subContent) ==
    IF StartsWith(subContent, <<"Rationale", ":">>) \/ StartsWith(subContent, <<"Why", ":">>)
    THEN IF Has(item, "examples")
         THEN [content |-> item.content, rationale |-> StripRationaleMarker(subContent),
               examples |-> item.examples]
         ELSE [content |-> item.content, rationale |-> StripRationaleMarker(subContent)]
    ELSE IF StartsWith(subContent, <<"Example", ":">>)
    THEN LET examples == (IF Has(item, "examples") THEN item.examples ELSE <<>>)
                            \o <<StripExampleMarker(subContent)>>
         IN  IF Has(item, "rationale")
             THEN [content |-> item.content, rationale |-> item.rationale, examples |-> examples]
             ELSE [content |-> item.content, examples |-> examples]
    ELSE item

\* if (line.startsWith('   - ') && currentSection?.type === 'rules' && items.length > 0)
SubBullet ==
    /\ Scanning
    /\ NotCode
    /\ ~(IsListItem(line) /\ InRules)
    /\ IsSubBullet(line) /\ InRules /\ Len(currentSection.items) > 0
    /\ currentSection' =
          [currentSection EXCEPT !.items[Len(currentSection.items)] =
              WithSubBullet(@, Trim(Substring(line, 5)))]
    /\ UNCHANGED <<sections, inCodeBlock, currentCodeBlock>>
    /\ NextLine

IsRegular ==
    /\ NotCode
    /\ ~(IsListItem(line) /\ InRules)
    /\ ~(IsSubBullet(line) /\ InRules /\ Len(currentSection.items) > 0)

\* if (line.trim() && currentSection) currentSection.content.push(line)
ContentLine ==
    /\ Scanning
    /\ IsRegular
    /\ Trim(line) # <<>> /\ ~IsNull(currentSection)
    /\ currentSection' = [currentSection EXCEPT !.content = Append(@, line)]
    /\ UNCHANGED <<sections, inCodeBlock, currentCodeBlock>>
    /\ NextLine

\* a blank line, or a line before the first heading: no branch applies
SkipLine ==
    /\ Scanning
    /\ IsRegular
    /\ ~(Trim(line) # <<>> /\ ~IsNull(currentSection))
    /\ UNCHANGED <<sections, currentSection, inCodeBlock, currentCodeBlock>>
    /\ NextLine

\* setTaxonomy(pkg, 'agents.md', 'rule')
setTaxonomy(p, format, subtype) ==
    [id |-> p.id, version |-> p.version, name |-> p.name, description |-> p.description,
     author |-> p.author, tags |-> p.tags, content |-> p.content,
     sourceFormat |-> p.sourceFormat, metadata |-> p.metadata,
     format |-> format, subtype |-> subtype]

\* metadata.description || extractDescription(body)
Description ==
    IF Has(metadata, "description") /\ metadata.description # <<>>
    THEN metadata.description ELSE extractDescription(body)

BuildPackageUnprefixed(parsedSections) ==
    setTaxonomy(
        [id |-> metadata.id, version |-> <<"1.0.0">>, name |-> metadata.name,
         description |-> Description, author |-> <<>>,
         tags |-> << <<"agents.md">> >> \o inferTags(body),
         content |-> [format |-> "canonical", version |-> "1.0", sections |-> parsedSections],
         sourceFormat |-> "agents.md",
         metadata |-> [title |-> metadata.name, description |-> Description,
                       agentsMdConfig |-> frontmatter]],
        "agents.md", "rule")

\* the package fromAgentsMd returns for the parsed sections
BuildPackage(parsedSections) ==
    setTaxonomy(
        [id |-> metadata.id,
         version |-> IF Has(metadata, "version") /\ metadata.version # <<>>
                     THEN metadata.version ELSE <<"1.0.0">>,
         name |-> metadata.name,
         description |-> Description,
         author |-> IF Has(metadata, "author") THEN metadata.author ELSE <<>>,
         tags |-> IF Has(metadata, "tags") THEN metadata.tags
                  ELSE << <<"agents.md">> >> \o inferTags(body),
         content |-> [format |-> "canonical", version |-> "1.0",
                      sections |-> << [type |-> "metadata",
                                       data |-> [title |-> Str(metadata.name),
                                                 description |-> Str(Description)]] >>
                                   \o parsedSections],
         sourceFormat |-> "agents.md",
         metadata |-> [title |-> metadata.name, description |-> Description,
                       agentsMdConfig |-> frontmatter]],
        "agents.md", "rule")

\* end of the loop of parseMarkdown, then the rest of fromAgentsMd
Finish ==
    /\ ppc = "scan"
    /\ lineIndex > Len(body)
    /\ sections' = PushCurrent
    /\ parsedPkg' = BuildPackage(PushCurrent)
    /\ ppc' = "done"
    /\ UNCHANGED <<content, metadata, frontmatter, body, lineIndex, currentSection,
                   inCodeBlock, currentCodeBlock>>
    /\ UNCHANGED <<cvars, qvars, tvars>>

(***************************************************************************)
(* fromAgentsMd: inputs                                                    *)
(***************************************************************************)
Text ==
    [BlankLine |->
        <<>>,
     TitleLine1 |->
        <<"#", " ", "My Rules">>,
     RulesHeading |->
        <<"#", "#", " ", "Guidelines">>,
     ExamplesHeading |->
        <<"#", "#", " ", "Examples">>,
     PlainHeading |->
        <<"#", "#", " ", "Setup">>,
     BadExampleHeading |->
        <<"#", "#", "#", " ", Atom.CrossMark, " ", "Bad", ":", " ", "missing assertions">>,
     PlainExampleHeading |->
        <<"#", "#", "#", " ", "Basic call">>,
     FenceLine |->
        <<Atom.Fence>>,
     RuleLine |->
        <<"-", " ", "Use strict types">>,
     ProseLine |->
        <<"Intro text.">>,
     RationaleLine |->
        <<" ", " ", " ", "-", " ", "Rationale", ":", " ", "fewer runtime errors">>,
     ExampleBulletLine |->
        <<" ", " ", " ", "-", " ", "Example", ":", " ", Atom.Backtick, "strict: true", Atom.Backtick>>,
     OtherBulletLine |->
        <<" ", " ", " ", "-", " ", "see the handbook">>,
     OrdinalLine |->
        <<"1", ".", " ", "Use strict types">>,
     TypedFenceLine |->
        <<Atom.Fence, "ts">>,
     CodeTextLine |->
        <<"expect(x)">>,
     GoodExampleHeading |->
        <<"#", "#", "#", " ", Atom.CheckMark, " ", "Good", ":", " ", "with assertions">>,
     AvoidExampleHeading |->
        <<"#", "#", "#", " ", "Avoid", ":", " ", "missing assertions">>,
     PreferredExampleHeading |->
        <<"#", "#", "#", " ", "Preferred", ":", " ", "with assertions">>,
     DoExampleHeading |->
        <<"#", "#", "#", " ", "Do", ":", " ", "with assertions">>,
     OverviewHeading |->
        <<"#", "#", " ", "Overview">>,
     AmbiguousHeading |->
        <<"#", "#", " ", "Examples", " ", "of", " ", "Rules">>,
     TechLine |->
        <<"react api testing">>,
     ProjectLine |->
        <<"project", ":", " ", "demo">>,
     ScopeLine |->
        <<"scope", ":", " ", "backend">>,
     BrokenYamlLine |->
        <<"project", ":", " ", "[", "demo">>]

LineVocabulary ==
    {Text.BlankLine, Text.TitleLine1, Text.RulesHeading, Text.ExamplesHeading, Text.PlainHeading,
     Text.BadExampleHeading, Text.PlainExampleHeading, Text.FenceLine, Text.RuleLine,
     Text.ProseLine}

BoundedDocs(n) == [1..n -> LineVocabulary]

\* the text of the round-trip scenario
ScenarioDoc ==
    <<Text.TitleLine1, Text.BlankLine, Text.ProseLine, Text.BlankLine, Text.RulesHeading, Text.BlankLine, Text.RuleLine,
      Text.RationaleLine, Text.BlankLine>>

FrontmatterDocs ==
    {<<FrontmatterDelimiter, Text.ProjectLine, Text.ScopeLine, FrontmatterDelimiter, Text.BlankLine>>,
     <<FrontmatterDelimiter, Text.ProjectLine, FrontmatterDelimiter>>,
     <<FrontmatterDelimiter, Text.BrokenYamlLine, FrontmatterDelimiter, Text.BlankLine>>,
     <<FrontmatterDelimiter, Text.ProjectLine, FrontmatterDelimiter, Text.TitleLine1, Text.ProseLine>>,
     <<FrontmatterDelimiter, Text.BrokenYamlLine, FrontmatterDelimiter, Text.TitleLine1, Text.ProseLine>>,
     <<FrontmatterDelimiter, Text.ProjectLine, Text.TitleLine1, Text.ProseLine>>}

ScenarioDocs ==
    {ScenarioDoc,
     <<Text.ExamplesHeading, Text.BadExampleHeading, Text.TypedFenceLine, Text.CodeTextLine, Text.FenceLine>>,
     <<Text.ExamplesHeading, Text.GoodExampleHeading, Text.TypedFenceLine, Text.CodeTextLine, Text.FenceLine>>,
     <<Text.ExamplesHeading, Text.AvoidExampleHeading, Text.FenceLine, Text.CodeTextLine, Text.FenceLine>>,
     <<Text.ExamplesHeading, Text.PreferredExampleHeading, Text.FenceLine, Text.CodeTextLine, Text.FenceLine>>,
     <<Text.ExamplesHeading, Text.DoExampleHeading, Text.FenceLine, Text.CodeTextLine, Text.FenceLine>>,
     <<Text.ExamplesHeading, Text.PlainExampleHeading, Text.FenceLine, Text.CodeTextLine, Text.FenceLine>>,
     <<Text.ExamplesHeading, Text.PlainExampleHeading, Text.FenceLine, Text.BlankLine,
       Text.CodeTextLine, Text.FenceLine>>,
     <<Text.ExamplesHeading, Text.PlainExampleHeading, Text.ProseLine>>,
     <<Text.RulesHeading, Text.BlankLine, Text.ProseLine, Text.TitleLine1, Text.RuleLine>>,
     <<Text.RulesHeading, Text.OrdinalLine, Text.RuleLine, Text.ExampleBulletLine, Text.OtherBulletLine>>,
     <<Text.AmbiguousHeading, Text.RuleLine, Text.OverviewHeading, Text.TechLine>>,
     <<Text.TitleLine1, Text.ProseLine, Text.BlankLine, Text.TechLine, Text.PlainHeading, Text.ProseLine>>}
    \cup FrontmatterDocs

MinimalMetadata == [id |-> <<"my-rules">>, name |-> <<"my-rules">>]
FullMetadata ==
    [id |-> <<"my-rules">>, name |-> <<"my-rules">>, description |-> <<"Team rules">>,
     author |-> <<"prpm">>, tags |-> << <<"team">> >>, version |-> <<"2.0.0">>]

InitParse ==
    /\ ppc = "start"
    /\ \/ \E n \in 1..MaxLines : content \in BoundedDocs(n) /\ metadata = MinimalMetadata
       \/ content \in ScenarioDocs /\ metadata \in {MinimalMetadata, FullMetadata}
    /\ frontmatter = [key \in {} |-> <<>>]
    /\ body = <<>>
    /\ lineIndex = 1
    /\ sections = <<>>
    /\ currentSection = null
    /\ inCodeBlock = FALSE
    /\ currentCodeBlock = null
    /\ parsedPkg = NoPackage
    /\ CursorIdle
    /\ QueueIdle
    /\ CliIdle

NextParse ==
    \/ ParseFrontmatter
    \/ Heading1
    \/ Heading2
    \/ Heading3
    \/ FenceOpen
    \/ FenceClose
    \/ CodeLine
    \/ ListItem
    \/ SubBullet
    \/ ContentLine
    \/ SkipLine
    \/ Finish

SpecParse == InitParse /\ [][NextParse]_vars

(***************************************************************************)
(* fromAgentsMd: properties                                                *)
(***************************************************************************)
ParsedSections == parsedPkg.content.sections

\* the three malformed inputs of the graceful-degradation property
UnparseableFrontmatterOnly == <<FrontmatterDelimiter, Text.BrokenYamlLine, FrontmatterDelimiter, Text.BlankLine>>
NumberOfFences(lines, last) == Cardinality({k \in 1..last : IsFence(lines[k])})
Malformed(lines) ==
    \/ lines = EmptyString
    \/ FrontmatterMatch(lines) # 0
          /\ \A k \in (FrontmatterMatch(lines) + 1)..Len(lines) : Trim(lines[k]) = <<>>
    \/ NumberOfFences(lines, Len(lines)) % 2 = 1

\* C6: fromAgentsMd never raises: for the empty string, for a text that is
\* only front matter (valid or unparseable), for a text with an unmatched
\* fence delimiter, and for every other text, the call returns a document
\* that contains the metadata section.
C6_ParserNeverRaises ==
    /\ ppc # "raised"
    /\ ppc = "done" =>
          /\ Len(ParsedSections) >= 1
          /\ ParsedSections[1].type = "metadata"
          /\ Malformed(content) => \A k \in 2..Len(ParsedSections) : ParsedSections[k].type # "metadata"

C6_Witness ==
    /\ ppc = "done"
    /\ content = UnparseableFrontmatterOnly
    /\ Malformed(content)
    /\ Len(ParsedSections) = 1
    /\ ParsedSections[1].type = "metadata"

\* all examples of all examples sections of the returned document
ParsedExamples ==
    UNION {{ParsedSections[k].examples[e] : e \in 1..Len(ParsedSections[k].examples)} :
              k \in {n \in 1..Len(ParsedSections) : ParsedSections[n].type = "examples"}}

\* an examples section with the "Bad: missing assertions" heading followed by
\* a fenced block that is opened and closed
BadExampleDocs ==
    {<<Text.ExamplesHeading, Text.BadExampleHeading, Text.TypedFenceLine, Text.CodeTextLine, Text.FenceLine>>,
     <<Text.ExamplesHeading, Text.BadExampleHeading, Text.FenceLine, Text.ProseLine, Text.FenceLine>>,
     <<Text.ExamplesHeading, Text.BadExampleHeading, Text.FenceLine, Text.FenceLine>>}

\* C7: a "### (cross mark) Bad: missing assertions" heading followed by a
\* fenced code block in an examples section yields an Example whose
\* description is exactly "missing assertions" and whose good flag is false.
C7_BadExampleDescription ==
    (ppc = "done" /\ content \in BadExampleDocs) =>
        \E e \in ParsedExamples :
            /\ e.description = <<"missing assertions">>
            /\ Has(e, "good") /\ e.good = FALSE

\* C8: an example heading that carries neither a good nor a bad marker (the
\* heading "### Basic call") yields an Example whose good flag is true or
\* absent, never false, so that convertExamples renders it as a Good example.
C8_UnmarkedExampleIsGood ==
    ppc = "done" =>
        \A e \in ParsedExamples :
            e.description = <<"Basic call">> =>
                /\ ~(Has(e, "good") /\ e.good = FALSE)
                /\ StartsWith(ExampleLines(e)[1], <<"### ", Atom.CheckMark, " Good">>)

\* C9: every rules section of a document returned by fromAgentsMd has at
\* least one item.
C9_RulesNeverEmpty ==
    ppc = "done" =>
        \A k \in 1..Len(ParsedSections) :
            ParsedSections[k].type = "rules" => Len(ParsedSections[k].items) >= 1

\* number of "#" and "##" headings among the first last lines: the position,
\* among the parsed sections, of the section that is active after them
SectionsOpened(lines, last) ==
    Cardinality({k \in 1..last : StartsWith(lines[k], Prefix.H1) \/ StartsWith(lines[k], Prefix.H2)})

\* a non-blank line outside fenced blocks that is not a heading, a fence
\* delimiter, a list item or a sub-bullet, read while a section is active
PlainTextLine(lines, k) ==
    /\ Trim(lines[k]) # <<>>
    /\ ~IsHeader(lines[k])
    /\ ~IsFence(lines[k])
    /\ ~IsListItem(lines[k])
    /\ ~IsSubBullet(lines[k])
    /\ NumberOfFences(lines, k) % 2 = 0
    /\ SectionsOpened(lines, k) >= 1

\* C10: every plain text line is kept in the free-text content of the
\* section that is active when it is read, whatever the kind of the section.
\* (The metadata section precedes the parsed sections in the document.)
C10_PlainTextKept ==
    ppc = "done" =>
        \A k \in 1..Len(body) :
            PlainTextLine(body, k) =>
                LET section == ParsedSections[1 + SectionsOpened(body, k)]
                IN  /\ Has(section, "content")
                    /\ \E n \in 1..Len(section.content) : section.content[n] = body[k]

\* the elements of a sequence
Elements(seq) == {seq[k] : k \in 1..Len(seq)}

\* C11: the tags of the returned package are the union of the caller-supplied
\* tags and the tags inferred from the body: every caller-supplied tag and
\* every inferred tag (at most 5 of them) is among the tags of the package,
\* also when the caller supplies a non-empty list of tags.
C11_TagsAreUnion ==
    ppc = "done" =>
        /\ Has(metadata, "tags") => Elements(metadata.tags) \subseteq Elements(parsedPkg.tags)
        /\ Elements(inferTags(body)) \subseteq Elements(parsedPkg.tags)
        /\ Len(inferTags(body)) <= 5

\* the lines of the first paragraph after the first "# " heading, trimmed: the
\* run of non-blank lines that starts at the first non-blank line after the
\* heading and ends before the next blank line or heading
FirstParagraph(lines) ==
    LET headings == {k \in 1..Len(lines) : StartsWith(lines[k], Prefix.H1)}
        h == IF headings = {} THEN Len(lines) + 1
             ELSE CHOOSE k \in headings : \A j \in headings : k <= j
        filled == {k \in (h + 1)..Len(lines) : Trim(lines[k]) # <<>>}
        start == IF filled = {} THEN Len(lines) + 1
                 ELSE CHOOSE k \in filled : \A j \in filled : k <= j
        stops == {k \in start..Len(lines) : Trim(lines[k]) = <<>> \/ IsHeader(lines[k])}
        stop == IF stops = {} THEN Len(lines) + 1
                ELSE CHOOSE k \in stops : \A j \in stops : k <= j
    IN  [k \in 1..(stop - start) |-> Trim(lines[start + k - 1])]

\* C12: when metadata.description is not supplied, the derived description
\* is the first paragraph after the top-level heading (its non-blank lines
\* joined by spaces), cut to 200 characters: it has no text of a later
\* paragraph or of a line at or after the next heading.
C12_DescriptionIsFirstParagraph ==
    (ppc = "done" /\ ~Has(metadata, "description")) =>
        parsedPkg.description = SubstringTo(JoinSpace(FirstParagraph(body)), DescriptionLimit)

\* C13: parsing the text of the round-trip scenario gives, after the
\* metadata section, one context section titled "Project Overview" whose
\* content contains "My Rules", and one rules section titled "Guidelines"
\* with exactly one Rule, of content "Use strict types" and rationale
\* "fewer runtime errors".
C13_RoundTripScenario ==
    (ppc = "done" /\ content = ScenarioDoc) =>
        /\ Len(ParsedSections) = 3
        /\ ParsedSections[2].type = "context"
        /\ ParsedSections[2].title = <<"Project Overview">>
        /\ \E n \in 1..Len(ParsedSections[2].content) :
               ParsedSections[2].content[n] = <<"My Rules">>
        /\ ParsedSections[3].type = "rules"
        /\ ParsedSections[3].title = <<"Guidelines">>
        /\ Len(ParsedSections[3].items) = 1
        /\ ParsedSections[3].items[1].content = <<"Use strict types">>
        /\ Has(ParsedSections[3].items[1], "rationale")
        /\ ParsedSections[3].items[1].rationale = <<"fewer runtime errors">>

C13_Witness ==
    /\ ppc = "done"
    /\ content = ScenarioDoc
    /\ Len(ParsedSections) = 3
    /\ Len(ParsedSections[3].items) = 1
    /\ Has(ParsedSections[3].items[1], "rationale")

\* the kind a line of the lookahead announces, "none" if it announces none
KindAnnounced(l) ==
    IF StartsWith(Trim(l), Prefix.List) \/ MatchesOrdinal(Trim(l)) THEN "rules"
    ELSE IF StartsWith(Trim(l), Prefix.H3) \/ StartsWith(Trim(l), <<Atom.Fence>>) THEN "examples"
    ELSE "none"

\* the kind of the section that the "## " heading at position k opens, by the
\* ordered rule list: examples keywords, rules keywords, context keywords,
\* the first announcing line among the next 4 lines, instructions
KindByPriority(lines, k) ==
    LET next == {j \in (k + 1)..(k + 4) : j <= Len(lines) /\ KindAnnounced(lines[j]) # "none"}
    IN  IF \E kw \in {"example", "sample", "usage"} : IncludesKeyword(lines[k], kw)
        THEN "examples"
        ELSE IF \E kw \in {"rule", "guideline", "standard", "convention", "requirement",
                           "must", "should"} : IncludesKeyword(lines[k], kw)
        THEN "rules"
        ELSE IF \E kw \in {"context", "background", "overview", "about", "introduction"} :
                    IncludesKeyword(lines[k], kw)
        THEN "context"
        ELSE IF next = {} THEN "instructions"
        ELSE KindAnnounced(lines[CHOOSE j \in next : \A m \in next : j <= m])

\* C14: the kind of the section opened by a "## " heading is decided by the
\* first rule that matches, in the order examples keywords, rules keywords,
\* context keywords, lookahead over the next 4 lines, instructions: a title
\* that matches an earlier keyword set has that kind whatever later keyword
\* it also matches and whatever lines follow ("Examples of Rules" followed
\* by a list is an examples section).
C14_KindIsFirstMatch ==
    ppc = "done" =>
        \A k \in 1..Len(body) :
            StartsWith(body[k], Prefix.H2) =>
                ParsedSections[1 + SectionsOpened(body, k)].type = KindByPriority(body, k)

C14_Witness ==
    /\ ppc = "done"
    /\ Len(body) >= 2
    /\ body[1] = Text.AmbiguousHeading
    /\ body[2] = Text.RuleLine
    /\ ParsedSections[2].type = "examples"

\* C15: every document returned by fromAgentsMd has exactly one metadata
\* section, and it is the first element of content.sections, for any text
\* (several "# " headings and front matter included).
C15_ExactlyOneMetadataFirst ==
    ppc = "done" =>
        /\ Len(ParsedSections) >= 1
        /\ {k \in 1..Len(ParsedSections) : ParsedSections[k].type = "metadata"} = {1}

C15_Witness ==
    /\ ppc = "done"
    /\ Cardinality({k \in 1..Len(body) : StartsWith(body[k], Prefix.H1)}) >= 2
    /\ Len(ParsedSections) >= 3
    /\ {k \in 1..Len(ParsedSections) : ParsedSections[k].type = "metadata"} = {1}

\* C16: the penalty of toCursor is fixed, not per section: whenever at least
\* one lossy warning is produced and no fault occurs, qualityScore is exactly
\* 90, however many sections were skipped.
C16_FixedPenalty ==
    (cpc = "returned" /\ ~RenderingFaults
        /\ \E k \in 1..Len(ResultWarnings) : MatchesLossyRule(ResultWarnings[k])) =>
        result.qualityScore = 90

C16_Witness ==
    /\ cpc = "returned"
    /\ ~RenderingFaults
    /\ Cardinality({k \in 1..Len(ResultWarnings) : MatchesLossyRule(ResultWarnings[k])}) >= 2
    /\ result.qualityScore = 90

\* the atoms of a text
AtomsOf(text) == UNION {Elements(text[k]) : k \in 1..Len(text)}

\* the names of the tools of the tools sections of the input
ToolNames ==
    UNION {AtomsOf(InputSections[i].tools) :
              i \in {n \in 1..Len(InputSections) : InputSections[n].type = "tools"}}

ContainsLines(text, sub) ==
    \E offset \in 0..(Len(text) - Len(sub)) : SubSeq(text, offset + 1, offset + Len(sub)) = sub

\* a custom section that is untagged or tagged for Cursor
ForCursor(s) == ~Has(s, "editorType") \/ s.editorType = "cursor"

KiroResult(p, o, inclusion) ==
    LET config == IF Has(o, "kiroConfig") THEN o.kiroConfig ELSE [key \in {} |-> <<>>]
        secs == IF Has(p, "content") THEN p.content.sections ELSE <<>>
        skipped == SelectSeq(secs, LAMBDA s : s.type \in {"persona", "tools"})
        title == IF Has(config, "domain") THEN config.domain
                 ELSE IF HasMeta(p, "title") THEN p.metadata.title ELSE p.id
        warnings == [k \in 1..Len(skipped) |-> <<skipped[k].type, " section ", "not supported">>]
    IN  [format |-> "kiro",
         content |-> << <<"---">>, <<"inclusion: ", inclusion>> >>
                     \o (IF Has(config, "fileMatchPattern")
                         THEN << <<"fileMatchPattern: \"">> \o config.fileMatchPattern \o <<"\"">> >>
                         ELSE <<>>)
                     \o (IF Has(config, "domain")
                         THEN << <<"domain: ">> \o config.domain >> ELSE <<>>)
                     \o << <<"---">>, EmptyLine, <<"# ">> \o title >>,
         warnings |-> warnings,
         lossyConversion |-> SomeLossy(warnings)]

toKiroDefaulting(p, o) == [raised |-> FALSE, value |-> KiroResult(p, o, "always")]

toKiro(p, o) ==
    IF ~Has(o, "kiroConfig") \/ ~Has(o.kiroConfig, "inclusion")
    THEN [raised |-> TRUE, message |-> <<"Kiro format requires inclusion mode">>]
    ELSE IF o.kiroConfig.inclusion = "fileMatch" /\ ~Has(o.kiroConfig, "fileMatchPattern")
    THEN [raised |-> TRUE,
          message |-> <<"fileMatch inclusion mode requires ", "fileMatchPattern">>]
    ELSE [raised |-> FALSE, value |-> KiroResult(p, o, o.kiroConfig.inclusion)]

\* the options of the calls of the tests, and the same without configuration
KiroOptionsSet ==
    {[format |-> "kiro"],
     [format |-> "kiro", kiroConfig |-> [domain |-> <<"testing">>]],
     [format |-> "kiro", kiroConfig |-> [inclusion |-> "always"]],
     [format |-> "kiro", kiroConfig |-> [inclusion |-> "manual"]],
     [format |-> "kiro", kiroConfig |-> [inclusion |-> "manual", domain |-> <<"Custom Domain">>]],
     [format |-> "kiro", kiroConfig |-> [inclusion |-> "fileMatch"]],
     [format |-> "kiro", kiroConfig |-> [inclusion |-> "fileMatch", domain |-> <<"testing">>]],
     [format |-> "kiro",
      kiroConfig |-> [inclusion |-> "fileMatch", fileMatchPattern |-> <<"**/*.test.ts">>]]}

InitKiro ==
    /\ cpc = "call"
    /\ options \in KiroOptionsSet
    /\ \E n \in 0..MaxSections :
           \E s \in [1..n -> {Fixture.InstructionsSection, Fixture.PersonaSection,
                              Fixture.ToolsSection}] : pkg \in Packages(s)
    /\ result = NoResult
    /\ error = <<>>
    /\ rendered = <<>>
    /\ ParserIdle
    /\ QueueIdle
    /\ CliIdle

ToKiro ==
    /\ cpc = "call"
    /\ LET r == toKiro(pkg, options)
       IN  /\ cpc' = IF r.raised THEN "raised" ELSE "returned"
           /\ result' = IF r.raised THEN NoResult ELSE r.value
           /\ error' = IF r.raised THEN r.message ELSE <<>>
    /\ UNCHANGED <<pkg, options, rendered>>
    /\ UNCHANGED <<pvars, qvars, tvars>>

NextKiro == ToKiro

SpecKiro == InitKiro /\ [][NextKiro]_vars

\* the configuration a call of toKiro lacks
LacksInclusion == ~Has(options, "kiroConfig") \/ ~Has(options.kiroConfig, "inclusion")
LacksPattern ==
    /\ ~LacksInclusion
    /\ options.kiroConfig.inclusion = "fileMatch"
    /\ ~Has(options.kiroConfig, "fileMatchPattern")

\* C19: toKiro fails fast on missing required configuration: called without
\* an inclusion mode it raises before it produces any output, and called
\* with the inclusion mode fileMatch and no pattern it raises an error that
\* names "fileMatchPattern"; in neither case is a result returned.
C19_KiroFailsFast ==
    cpc # "call" =>
        /\ LacksInclusion => cpc = "raised" /\ result = NoResult /\ error # <<>>
        /\ LacksPattern =>
              cpc = "raised" /\ result = NoResult /\ Includes(error, "fileMatchPattern")

C19_Witness ==
    /\ cpc = "raised"
    /\ LacksPattern
    /\ Includes(error, "fileMatchPattern")
    /\ result = NoResult

(***************************************************************************)
(* Hosted test job queue: the tables and functions of migration 029, the   *)
(* route POST /api/v1/test-jobs/run and the TestJobWorker of the worker    *)
(* implementation guide.                                                   *)
(*                                                                         *)
(* Every statement a worker or the route sends runs in a transaction of    *)
(* its own (READ COMMITTED).  The call of get_next_test_job is one         *)
(* transaction of three steps: the locking SELECT takes its snapshot, it   *)
(* locks the first row it can lock, and the UPDATE marks the row as        *)
(* running; the row lock is held from the second step to the end of the    *)
(* third, where the transaction commits.  NULL is 0 where a row id is      *)
(* expected.                                                               *)
(***************************************************************************)
Workers == 1..NumWorkers

\* rows of users (with the tier of the user's organization, if any), packages and
\* package_test_cases (the packages with an active test case)
Database ==
    [users |-> [free_user |-> [subscription_tier |-> "free"],
                plus_user |-> [subscription_tier |-> "plus"],
                capped_user |-> [subscription_tier |-> "plus"],
                org_user |-> [subscription_tier |-> "free", org_tier |-> "pro"]],
     packages |-> {"pkg-1"},
     package_test_cases |-> {"pkg-1"}]

get_tier_test_limit(tier) ==
    CASE tier = "plus" -> 100
      [] tier = "pro" -> 500
      [] tier = "enterprise" -> 999999
      [] OTHER -> 0

can_run_hosted_test(user_uuid) ==
    LET user_tier == Database.users[user_uuid].subscription_tier
        effective_tier ==
            IF /\ Has(Database.users[user_uuid], "org_tier")
               /\ get_tier_test_limit(Database.users[user_uuid].org_tier)
                      > get_tier_test_limit(user_tier)
            THEN Database.users[user_uuid].org_tier
            ELSE user_tier
        current_month_usage == user_test_usage[user_uuid]
        tier_limit == get_tier_test_limit(effective_tier)
    IN  [can_run |-> current_month_usage < tier_limit,
         tier |-> effective_tier,
         tests_used |-> current_month_usage,
         tests_limit |-> tier_limit,
         tests_remaining |-> IF tier_limit > current_month_usage
                             THEN tier_limit - current_month_usage ELSE 0]

\* ORDER BY priority DESC, created_at ASC: row a sorts strictly before row b
SortsBefore(a, b) ==
    \/ a.priority > b.priority
    \/ a.priority = b.priority /\ a.created_at < b.created_at

\* get_queue_position over the rows of table; 0 is NULL
get_queue_position(table, job_uuid) ==
    IF job_uuid \notin DOMAIN table \/ table[job_uuid].status # "queued"
    THEN 0
    ELSE Cardinality({j \in DOMAIN table :
                         /\ table[j].status = "queued"
                         /\ SortsBefore(table[j], table[job_uuid])}) + 1

\* the locking SELECT with the FOR UPDATE SKIP LOCKED clause left out: the first row of the
\* snapshot
SelectWithoutRowLocks(w) ==
    IF snapshot[w] = {}
    THEN {0}
    ELSE {j \in snapshot[w] :
             \A k \in snapshot[w] : ~SortsBefore(test_jobs[k], test_jobs[j])}

\* the locking SELECT with the ORDER BY clause left out: any row it can lock
SelectUnordered(w) ==
    LET locked == {job_id[v] : v \in {v \in Workers \ {w} : wpc[v] = "update"}}
        lockable == {j \in snapshot[w] : test_jobs[j].status = "queued" /\ j \notin locked}
    IN  IF lockable = {} THEN {0} ELSE lockable

\* SELECT id INTO job_id ... WHERE status = 'queued' ORDER BY priority DESC, created_at ASC
\* LIMIT 1 FOR UPDATE SKIP LOCKED: the ids the statement of worker w can yield.  A row of
\* the snapshot is passed over if another transaction holds its lock, or if a transaction
\* that committed since the snapshot left it with a status other than queued; rows that sort
\* equal come in either order.
SelectForUpdateSkipLocked(w) ==
    LET locked == {job_id[v] : v \in {v \in Workers \ {w} : wpc[v] = "update"}}
        lockable == {j \in snapshot[w] : test_jobs[j].status = "queued" /\ j \notin locked}
    IN  IF lockable = {}
        THEN {0}
        ELSE {j \in lockable :
                 \A k \in lockable : ~SortsBefore(test_jobs[k], test_jobs[j])}

\* UPDATE test_jobs SET status = ... WHERE id = ...
UpdateStatus(table, id, status) ==
    [j \in DOMAIN table |-> IF j = id THEN [table[j] EXCEPT !.status = status] ELSE table[j]]

\* executeJob up to the statement that decides whether it throws; node-postgres sends an
\* undefined parameter as NULL, which no package_id equals
executeJob(job) ==
    IF ~Has(job, "package_id") \/ job.package_id \notin Database.package_test_cases
    THEN [threw |-> TRUE, message |-> <<"No active test cases found for package">>]
    ELSE IF job.package_id \notin Database.packages
    THEN [threw |-> TRUE, message |-> <<"Package version not found">>]
    ELSE [threw |-> FALSE]

\* POST /api/v1/test-jobs/run; the time of the request is not before that of the last row
PostRun ==
    /\ Len(test_jobs) < MaxJobs
    /\ \E userId \in DOMAIN Database.users, package_id \in {"pkg-1", "pkg-404"},
          elapsed \in {0, 1} :
          LET limits == can_run_hosted_test(userId)
              now == IF test_jobs = <<>> THEN elapsed
                     ELSE test_jobs[Len(test_jobs)].created_at + elapsed
              job == [user_id |-> userId,
                      package_id |-> package_id,
                      status |-> "queued",
                      priority |-> IF limits.tier = "pro" THEN 1
                                   ELSE IF limits.tier = "enterprise" THEN 2 ELSE 0,
                      created_at |-> now]
              inserted == Append(test_jobs, job)
          IN  IF ~limits.can_run
              THEN /\ reply' = [code |-> 403]
                   /\ UNCHANGED <<test_jobs, claims>>
              ELSE IF package_id \notin Database.packages
              THEN /\ reply' = [code |-> 404]
                   /\ UNCHANGED <<test_jobs, claims>>
              ELSE /\ test_jobs' = inserted
                   /\ claims' = Append(claims, 0)
                   /\ reply' = [code |-> 201,
                                position_in_queue |->
                                    get_queue_position(inserted, Len(inserted))]
    /\ UNCHANGED <<user_test_usage, wpc, snapshot, job_id>>
    /\ UNCHANGED <<cvars, pvars, tvars>>

\* processNextJob sends SELECT * FROM get_next_test_job(); the locking SELECT of the
\* function takes its snapshot
TakeSnapshot(w) ==
    /\ wpc[w] = "poll"
    /\ snapshot' = [snapshot EXCEPT ![w] =
                        {j \in DOMAIN test_jobs : test_jobs[j].status = "queued"}]
    /\ wpc' = [wpc EXCEPT ![w] = "select"]
    /\ UNCHANGED <<test_jobs, user_test_usage, job_id, claims, reply>>
    /\ UNCHANGED <<cvars, pvars, tvars>>

\* the locking SELECT locks its row and assigns job_id
LockRow(w) ==
    /\ wpc[w] = "select"
    /\ \E j \in SelectForUpdateSkipLocked(w) : job_id' = [job_id EXCEPT ![w] = j]
    /\ snapshot' = [snapshot EXCEPT ![w] = {}]
    /\ wpc' = [wpc EXCEPT ![w] = "update"]
    /\ UNCHANGED <<test_jobs, user_test_usage, claims, reply>>
    /\ UNCHANGED <<cvars, pvars, tvars>>

\* IF job_id IS NOT NULL THEN UPDATE ... SET status = 'running'; RETURN job_id; commit
MarkRunning(w) ==
    /\ wpc[w] = "update"
    /\ IF job_id[w] # 0
       THEN /\ test_jobs' = UpdateStatus(test_jobs, job_id[w], "running")
            /\ claims' = [claims EXCEPT ![job_id[w]] = @ + 1]
       ELSE UNCHANGED <<test_jobs, claims>>
    /\ wpc' = [wpc EXCEPT ![w] = "got"]
    /\ UNCHANGED <<user_test_usage, snapshot, job_id, reply>>
    /\ UNCHANGED <<cvars, pvars, tvars>>

\* processNextJob from the result of the query: rows is the one row the scalar function
\* yields, with the column get_next_test_job; executeJob(job) either throws or marks the
\* job as completed and increments the usage of job.user_id
ProcessNextJob(w) ==
    /\ wpc[w] = "got"
    /\ LET rows == << [get_next_test_job |-> job_id[w]] >>
           job == rows[1]
       IN  IF Len(rows) = 0
           THEN /\ wpc' = [wpc EXCEPT ![w] = "poll"]
                /\ job_id' = [job_id EXCEPT ![w] = 0]
                /\ UNCHANGED <<test_jobs, user_test_usage>>
           ELSE IF executeJob(job).threw
           THEN /\ wpc' = [wpc EXCEPT ![w] = "failure"]
                /\ UNCHANGED <<test_jobs, user_test_usage, job_id>>
           ELSE /\ test_jobs' = UpdateStatus(test_jobs, job.id, "completed")
                /\ user_test_usage' = [user_test_usage EXCEPT ![job.user_id] = @ + 1]
                /\ wpc' = [wpc EXCEPT ![w] = "poll"]
                /\ job_id' = [job_id EXCEPT ![w] = 0]
    /\ UNCHANGED <<snapshot, claims, reply>>
    /\ UNCHANGED <<cvars, pvars, tvars>>

\* handleJobFailure(job.id, error), then back to the polling loop of start()
HandleJobFailure(w) ==
    /\ wpc[w] = "failure"
    /\ LET job == [get_next_test_job |-> job_id[w]]
           jobId == IF Has(job, "id") THEN job.id ELSE 0
       IN  test_jobs' = UpdateStatus(test_jobs, jobId, "failed")
    /\ wpc' = [wpc EXCEPT ![w] = "poll"]
    /\ job_id' = [job_id EXCEPT ![w] = 0]
    /\ UNCHANGED <<user_test_usage, snapshot, claims, reply>>
    /\ UNCHANGED <<cvars, pvars, tvars>>

\* empty queue, the workers started; plus_user has used all but one of the runs of the
\* month, capped_user all of them
InitQueue ==
    /\ test_jobs = <<>>
    /\ user_test_usage =
           [u \in DOMAIN Database.users |->
               IF u = "plus_user" THEN get_tier_test_limit("plus") - 1
               ELSE IF u = "capped_user" THEN get_tier_test_limit("plus")
               ELSE 0]
    /\ wpc = [w \in Workers |-> "poll"]
    /\ snapshot = [w \in Workers |-> {}]
    /\ job_id = [w \in Workers |-> 0]
    /\ claims = <<>>
    /\ reply = [code |-> 0]
    /\ CursorIdle
    /\ ParserIdle
    /\ CliIdle

NextQueue ==
    \/ PostRun
    \/ \E w \in Workers : TakeSnapshot(w)
    \/ \E w \in Workers : LockRow(w)
    \/ \E w \in Workers : MarkRunning(w)
    \/ \E w \in Workers : ProcessNextJob(w)
    \/ \E w \in Workers : HandleJobFailure(w)

SpecQueue == InitQueue /\ [][NextQueue]_vars

\* C20: with several workers polling concurrently, get_next_test_job returns each job to at
\* most one worker, the job it returns is running, and no two workers hold the same job
\* while they process what get_next_test_job returned
C20_ClaimedByAtMostOne ==
    /\ \A j \in DOMAIN claims :
           /\ claims[j] <= 1
           /\ claims[j] = 1 => test_jobs[j].status # "queued"
    /\ \A v, w \in Workers :
           /\ v # w
           /\ wpc[v] \in {"got", "failure"}
           /\ wpc[w] \in {"got", "failure"}
           /\ job_id[v] # 0
           => job_id[v] # job_id[w]

\* two workers polled concurrently and each was handed a job of its own
C20_Witness ==
    \E v, w \in Workers :
        /\ v # w
        /\ wpc[v] = "got" /\ wpc[w] = "got"
        /\ job_id[v] # 0 /\ job_id[w] # 0
        /\ job_id[v] # job_id[w]
        /\ claims[job_id[v]] = 1
        /\ claims[job_id[w]] = 1

\* the rows whose lock a call of get_next_test_job holds (from the locking SELECT to the commit)
HeldRows == {job_id[v] : v \in {v \in Workers : wpc[v] = "update"}}

\* C21 as stated: while a call of get_next_test_job claims a job (it holds the row lock and
\* is about to mark the row as running), no queued job that no worker has claimed has a
\* strictly higher priority, or the same priority and an earlier created_at
C21_HandedOutInOrder ==
    \A w \in Workers :
        wpc[w] = "update" /\ job_id[w] # 0 =>
            ~\E k \in DOMAIN test_jobs :
                /\ test_jobs[k].status = "queued"
                /\ k \notin HeldRows
                /\ SortsBefore(test_jobs[k], test_jobs[job_id[w]])

\* C21 amended: when the locking SELECT of get_next_test_job locks a row, no row that was
\* queued when the statement took its snapshot, is still queued and is not locked by
\* another call has a strictly higher priority, or the same priority and an earlier
\* created_at
C21_InOrderOfSnapshot ==
    [][\A w \in Workers :
          wpc[w] = "select" /\ wpc'[w] = "update" /\ job_id'[w] # 0 =>
              ~\E k \in snapshot[w] :
                  /\ test_jobs[k].status = "queued"
                  /\ k \notin HeldRows
                  /\ SortsBefore(test_jobs[k], test_jobs[job_id'[w]])]_vars

\* a call has locked a row while a queued row of lower rank is left in the queue
C21_Witness ==
    \E w \in Workers :
        /\ wpc[w] = "update" /\ job_id[w] # 0
        /\ \E k \in DOMAIN test_jobs :
               /\ test_jobs[k].status = "queued"
               /\ k \notin HeldRows
               /\ SortsBefore(test_jobs[job_id[w]], test_jobs[k])

\* the runs of the month POST /api/v1/test-jobs/run has accepted for user u: the completed
\* runs counted in user_test_usage and the jobs of the queue that are not completed
AcceptedThisMonth(u) ==
    user_test_usage[u]
        + Cardinality({j \in DOMAIN test_jobs :
                          test_jobs[j].user_id = u /\ test_jobs[j].status # "completed"})

\* C22: the number of jobs accepted for a user within the month never exceeds the limit of
\* the user's effective tier, also when several jobs are submitted before earlier ones have
\* completed
C22_WithinMonthlyLimit ==
    \A u \in DOMAIN Database.users :
        AcceptedThisMonth(u) <= can_run_hosted_test(u).tests_limit

\* the job a worker runs executeJob and handleJobFailure for is a row that is running
ExecutesRunningJob(w) ==
    LET job == [get_next_test_job |-> job_id[w]]
    IN  /\ Has(job, "id")
        /\ job.id \in DOMAIN test_jobs
        /\ test_jobs[job.id].status = "running"

\* one step of a row's status along queued, running, completed or failed
StatusMovesForward(before, after) ==
    \/ after = before
    \/ before = "queued" /\ after = "running"
    \/ before = "running" /\ after \in {"completed", "failed"}

QueuedJobs == {j \in DOMAIN test_jobs : test_jobs[j].status = "queued"}

\* C29: get_queue_position gives the queued jobs the distinct positions 1..n and NULL to
\* every other job, and the job a call of get_next_test_job claims is the job at position 1
C29_PositionIsDispatchOrder ==
    /\ [](/\ {get_queue_position(test_jobs, j) : j \in QueuedJobs}
                 = 1..Cardinality(QueuedJobs)
          /\ \A j \in DOMAIN test_jobs \ QueuedJobs : get_queue_position(test_jobs, j) = 0)
    /\ [][\A w \in Workers :
             wpc[w] = "select" /\ wpc'[w] = "update" /\ job_id'[w] # 0 =>
                 get_queue_position(test_jobs, job_id'[w]) = 1]_vars

(***************************************************************************)
(* prpm test: createTestCommand, runHostedTest and runLocalTest of the     *)
(* CLI, with the routes POST /api/v1/test-jobs/run and GET                 *)
(* /api/v1/test-jobs/:jobId they call through the registry client, which   *)
(* passes the request body and the response on unchanged.  The row of the  *)
(* submitted job is written as the statements of get_next_test_job,        *)
(* executeJob and handleJobFailure write it when they run for the job.     *)
(***************************************************************************)
maxAttempts == 180

\* the options commander hands to the action: the flags given (args.framework is "" if -f was
\* not given) over the defaults declared by createTestCommand; options.plugins is undefined
\* unless -p was given
createTestCommand(args) ==
    LET declared == [framework |-> IF args.framework = "" THEN "auto" ELSE args.framework,
                     local |-> args.local,
                     upload |-> args.upload,
                     verify |-> FALSE]
    IN  IF args.plugins
        THEN [framework |-> declared.framework, local |-> declared.local,
              upload |-> declared.upload, verify |-> declared.verify,
              plugins |-> <<"filesystem">>]
        ELSE declared

determineFramework(requested, package, plugins) ==
    IF requested = "claude-agent" THEN "claude-agent"
    ELSE IF requested = "litellm" THEN "litellm"
    ELSE IF Len(plugins) > 0 THEN "claude-agent"
    ELSE IF package.format = "claude" THEN "claude-agent"
    ELSE "litellm"

\* the action of the command up to the choice of the testing mode
TestAction ==
    /\ tpc = "start"
    /\ LET testOptions == createTestCommand(argv)
           hasToken == argv.token
           useHosted == hasToken /\ ~testOptions.local
       IN  tpc' = IF useHosted THEN "hosted" ELSE "local"
    /\ UNCHANGED <<argv, testRun, jobRow, attempts, exitCode>>
    /\ UNCHANGED <<cvars, pvars, qvars>>

\* runLocalTest for a package with test cases; failed is summary.testsFailed
RunLocalTest ==
    /\ tpc = "local"
    /\ \E failed \in {0, 1} :
          LET testOptions == createTestCommand(argv)
              plugins == IF Has(testOptions, "plugins") THEN testOptions.plugins ELSE <<>>
              framework == determineFramework(testOptions.framework, [format |-> argv.format],
                                              plugins)
          IN  /\ testRun' = [mode |-> "local", framework |-> framework,
                             upload_results |-> testOptions.upload, tests_failed |-> failed]
              /\ exitCode' = IF failed > 0 THEN 1 ELSE 0
    /\ tpc' = "exited"
    /\ UNCHANGED <<argv, jobRow, attempts>>
    /\ UNCHANGED <<cvars, pvars, qvars>>

\* runHostedTest up to the polling loop: client.submitTestJob sends the body to the route,
\* which answers 403 (the client throws 'Hosted testing not available') or chooses the
\* framework and inserts the job
SubmitTestJob ==
    /\ tpc = "hosted"
    /\ \E can_run \in BOOLEAN :
          LET testOptions == createTestCommand(argv)
              sent == [upload_results |-> testOptions.upload # FALSE,
                       verify_results |-> testOptions.verify]
              requestBody == IF Has(testOptions, "plugins")
                      THEN [upload_results |-> sent.upload_results,
                            verify_results |-> sent.verify_results,
                            plugins |-> testOptions.plugins]
                      ELSE sent
              plugins == IF Has(requestBody, "plugins") THEN requestBody.plugins ELSE <<>>
              framework == IF Has(requestBody, "framework") THEN requestBody.framework ELSE "auto"
              testFramework ==
                  IF framework = "auto"
                  THEN IF Len(plugins) > 0 \/ argv.format = "claude"
                       THEN "claude-agent" ELSE "litellm"
                  ELSE framework
          IN  IF ~can_run
              THEN /\ tpc' = "exited"
                   /\ exitCode' = 1
                   /\ UNCHANGED <<testRun, jobRow>>
              ELSE /\ tpc' = "poll"
                   /\ testRun' = [mode |-> "hosted", framework |-> testFramework,
                                  upload_results |-> requestBody.upload_results]
                   /\ jobRow' = [status |-> "queued", framework |-> testFramework,
                                 upload_results |-> requestBody.upload_results,
                                 test_result_id |-> 0, tests_failed |-> 0]
                   /\ UNCHANGED exitCode
    /\ attempts' = 0
    /\ UNCHANGED argv
    /\ UNCHANGED <<cvars, pvars, qvars>>

\* the worker's statements for the job: the UPDATE of get_next_test_job, then either the
\* UPDATE of executeJob with the id uploadResults returned (NULL unless upload_results) or
\* the UPDATE of handleJobFailure; failed is summary.testsFailed of the run
WorkerWrites ==
    /\ tpc = "poll"
    /\ \/ /\ jobRow.status = "queued"
          /\ jobRow' = [jobRow EXCEPT !.status = "running"]
       \/ /\ jobRow.status = "running"
          /\ \E failed \in {0, 1} :
                jobRow' = [jobRow EXCEPT !.status = "completed",
                                         !.test_result_id = IF jobRow.upload_results
                                                            THEN 1 ELSE 0,
                                         !.tests_failed = failed]
       \/ /\ jobRow.status = "running"
          /\ jobRow' = [jobRow EXCEPT !.status = "failed"]
    /\ UNCHANGED <<tpc, argv, testRun, attempts, exitCode>>
    /\ UNCHANGED <<cvars, pvars, qvars>>

\* one round of the polling loop of runHostedTest, or its end after maxAttempts rounds;
\* status is the response of GET /api/v1/test-jobs/:jobId, with results only for a completed
\* job that has a test_result_id
Poll ==
    /\ tpc = "poll"
    /\ LET shown == [status |-> jobRow.status]
           status == IF jobRow.status = "completed" /\ jobRow.test_result_id # 0
                     THEN [status |-> jobRow.status,
                           results |-> [tests_failed |-> jobRow.tests_failed,
                                        test_result_id |-> jobRow.test_result_id]]
                     ELSE shown
       IN  IF attempts >= maxAttempts
           THEN tpc' = "exited" /\ exitCode' = 1 /\ UNCHANGED attempts
           ELSE IF status.status = "completed"
           THEN /\ tpc' = "exited"
                /\ exitCode' = IF Has(status, "results") /\ status.results.tests_failed > 0
                               THEN 1 ELSE 0
                /\ UNCHANGED attempts
           ELSE IF status.status = "failed"
           THEN tpc' = "exited" /\ exitCode' = 1 /\ UNCHANGED attempts
           ELSE attempts' = attempts + 1 /\ UNCHANGED <<tpc, exitCode>>
    /\ UNCHANGED <<argv, testRun, jobRow>>
    /\ UNCHANGED <<cvars, pvars, qvars>>

\* prpm test <package> with any combination of -f, -p, -u and --local, logged in or not, for
\* a claude or a cursor package
InitCli ==
    /\ tpc = "start"
    /\ argv \in [framework : {"", "auto", "litellm", "claude-agent"}, plugins : BOOLEAN,
                 upload : BOOLEAN, local : BOOLEAN, token : BOOLEAN,
                 format : {"claude", "cursor"}]
    /\ testRun = [mode |-> "none"]
    /\ jobRow = [status |-> "none"]
    /\ attempts = 0
    /\ exitCode = -1
    /\ CursorIdle
    /\ ParserIdle
    /\ QueueIdle

NextCli ==
    \/ TestAction
    \/ RunLocalTest
    \/ SubmitTestJob
    \/ WorkerWrites
    \/ Poll

SpecCli == InitCli /\ [][NextCli]_vars

\* the framework the documented order selects for a command line
SelectedFramework(args) ==
    IF args.framework \in {"litellm", "claude-agent"} THEN args.framework
    ELSE IF args.plugins THEN "claude-agent"
    ELSE IF args.format = "claude" THEN "claude-agent"
    ELSE "litellm"

\* C23: in local and in hosted mode the tests run with the framework chosen in the order
\* explicit --framework litellm or claude-agent, plugins given, package format claude,
\* litellm
C23_FrameworkOrder ==
    testRun.mode \in {"local", "hosted"} => testRun.framework = SelectedFramework(argv)

\* C24: a logged-in user's hosted run without an upload flag submits the job with
\* upload_results = true
C24_HostedUploadDefault ==
    testRun.mode = "hosted" /\ ~argv.upload => testRun.upload_results = TRUE

C25_CodeBlockVerbatim ==
    [][Scanning /\ inCodeBlock /\ ~IsFence(line) =>
          /\ sections' = sections
          /\ currentSection' = currentSection
          /\ inCodeBlock'
          /\ ~IsNull(currentCodeBlock) /\ ~IsNull(currentCodeBlock')
          /\ currentCodeBlock'.code = Append(currentCodeBlock.code, line)]_vars

\* the last line before line k that satisfies Is, 0 if there is none
LastBefore(k, Is(_)) ==
    LET found == {m \in 1..(k - 1) : Is(body[m])}
    IN  IF found = {} THEN 0 ELSE CHOOSE m \in found : \A n \in found : n <= m

StartsSection(l) == StartsWith(l, Prefix.H1) \/ StartsWith(l, Prefix.H2)
IsExampleHeading(l) == StartsWith(l, Prefix.H3)
IsFenceLine(l) == IsFence(l) /\ ~IsHeader(l)

\* C26: when a closing fence attaches the pending example to the open section, its
\* description comes from a ### heading of that section (or is the default of a block
\* without heading) and its code from the lines after the opening fence only
C26_NoLeakAcrossSections ==
    /\ Scanning /\ IsFenceLine(line) /\ inCodeBlock
    /\ ~IsNull(currentCodeBlock) /\ ~IsNull(currentSection)
    => /\ /\ currentSection.type = "examples"
          /\ LastBefore(lineIndex, IsExampleHeading) <= LastBefore(lineIndex, StartsSection)
          => currentCodeBlock.description = <<"Code example">>
       /\ Len(currentCodeBlock.code) < lineIndex - LastBefore(lineIndex, IsFenceLine)

\* the rest of a list line after its marker: '- ', or the digits, the dot and the blank of
\* an ordinal
WithoutListMarker(l) ==
    IF StartsWith(l, Prefix.List)
    THEN Trim(Substring(l, 2))
    ELSE LET digits == CHOOSE n \in 1..Len(l) :
                           (\A k \in 1..n : l[k] \in Digits) /\ l[n + 1] = "."
         IN  Trim(Substring(l, digits + 1))

\* C27: inside a rules section a line that starts with '- ' or an ordinal marker appends
\* exactly one rule, whose content is the rest of the line without the list marker
C27_ListMarkerRemoved ==
    [][Scanning /\ NotCode /\ IsListItem(line) /\ InRules =>
          currentSection'.items
              = Append(currentSection.items, [content |-> WithoutListMarker(line)])]_vars

====
